---- MODULE Spec2Model ----
(***************************************************************************)
(* Heartbeat scheduling and delivery of the gateway                        *)
(* (src/src/infra/heartbeat-runner.ts): runHeartbeatOnce as a state        *)
(* machine whose positions are its awaits, and startHeartbeatRunner's      *)
(* sweep over the heartbeat agents, driven by interval ticks and wake      *)
(* requests.                                                               *)
(*                                                                         *)
(* Texts are sequences of atoms.  An atom stands for a run of characters:  *)
(*   "OK" the ack token HEARTBEAT_OK, "sp" one blank, "a" and "b" one      *)
(*   visible character, "R" the prefix "Reasoning:", "X" a block of 400    *)
(*   visible characters.                                                   *)
(***************************************************************************)
EXTENDS Integers, Sequences, FiniteSets, TLC

VARIABLES
    now,               \* Date.now(), in milliseconds
    ticks,             \* how often the clock has advanced (bounded)
    cfg,               \* the loaded configuration
    heartbeatsEnabled, \* module-level switch (line 64)
    queueSize,         \* getQueueSize("main")
    store,             \* session store: session key -> entry
    heartbeatAgents,   \* startHeartbeatRunner: the agents the sweep visits
    lastRunByAgent,    \* startHeartbeatRunner: agent id -> last run time
    handler,           \* heartbeat-wake: is the wake handler registered
    timer,             \* startHeartbeatRunner: is the interval timer set
    pendingWake,       \* heartbeat-wake: reason of the requested wake
    sweep,             \* per slot: one invocation of the wake handler `run`
    run,               \* per slot: one invocation of runHeartbeatOnce
    sends,             \* per slot: payloads handed to the channel send function
    agentCalls,        \* per slot: calls of getReplyFromConfig in the run
    sweepLog,          \* per slot: the runs the sweep has awaited: agent,
                       \* result, and the agent's last-run time before it
    calls,             \* direct calls of runHeartbeatOnce made so far (bounded)
    transcripts,       \* delivery session key -> its session id and transcript
    sessionLock,       \* delivery session key -> holder of its write lock
    systemEvents,      \* system-events: session key -> queued events
    prompts            \* the system lines of the prompts built so far (bounded)

vars == <<now, ticks, cfg, heartbeatsEnabled, queueSize, store, heartbeatAgents,
          lastRunByAgent, handler, timer, pendingWake, sweep, run, sends,
          agentCalls, sweepLog, calls, transcripts, sessionLock,
          systemEvents, prompts>>

----------------------------------------------------------------------------
\* Bounds of the model.

\* How often the clock advances in one behaviour.
MaxTicks == 2

\* Direct calls of runHeartbeatOnce in one behaviour.
MaxCalls == 2

\* Handler invocations (and their runs) that can be in flight at once.
MaxSlots == 2

Slots == 1..MaxSlots

----------------------------------------------------------------------------
\* Values.

Undef == 0 - 1             \* an absent number (undefined)
NoText == <<"undef">>      \* an absent text (undefined)

MINUTE == 60 * 1000
HOUR == 60 * MINUTE
\* line 668: the duplicate window, 24 * 60 * 60 * 1000
DUPLICATE_WINDOW_MS == 24 * 60 * 60 * 1000

DEFAULT_HEARTBEAT_ACK_MAX_CHARS == 300

Max(a, b) == IF a >= b THEN a ELSE b

AtomLen(c) ==
    CASE c = "OK" -> 12
      [] c = "R" -> 10
      [] c = "X" -> 400
      [] OTHER -> 1

RECURSIVE TextLen(_)
TextLen(t) == IF t = <<>> THEN 0 ELSE AtomLen(Head(t)) + TextLen(Tail(t))

DropLast(t) == SubSeq(t, 1, Len(t) - 1)

RECURSIVE TrimStart(_)
TrimStart(t) ==
    IF t # <<>> /\ Head(t) = "sp" THEN TrimStart(Tail(t)) ELSE t

RECURSIVE TrimEnd(_)
TrimEnd(t) ==
    IF t # <<>> /\ t[Len(t)] = "sp" THEN TrimEnd(DropLast(t)) ELSE t

\* String.prototype.trim
Trim(t) == TrimEnd(TrimStart(t))

\* String.prototype.startsWith
StartsWith(t, p) == Len(t) >= Len(p) /\ SubSeq(t, 1, Len(p)) = p

----------------------------------------------------------------------------
\* Reply payloads: [text, mediaUrl, mediaUrls].  text is NoText when the
\* payload has none, mediaUrl is "" when absent, mediaUrls is NoList when
\* absent and a sequence of urls otherwise.

NoList == <<"undef">>

Payload(text, mediaUrl, mediaUrls) ==
    [text |-> text, mediaUrl |-> mediaUrl, mediaUrls |-> mediaUrls]

TextOnly(text) == Payload(text, "", NoList)

\* `payload.text` as a condition: a non-empty string
HasText(p) == p.text # NoText /\ p.text # <<>>

\* `payload.mediaUrl || (payload.mediaUrls?.length ?? 0) > 0`
PayloadHasMedia(p) ==
    p.mediaUrl # "" \/ (p.mediaUrls # NoList /\ Len(p.mediaUrls) > 0)

\* The reply scanned from its first payload on
resolveHeartbeatReplyPayloadFirst(replyResult) ==
    LET found == {i \in 1..Len(replyResult) :
                    HasText(replyResult[i]) \/ PayloadHasMedia(replyResult[i])}
    IN  IF found = {} THEN 0 ELSE CHOOSE i \in found : \A j \in found : i <= j

\* resolveHeartbeatReplyPayload: the index of the last payload of the reply
\* that carries text or media, 0 when there is none.
RECURSIVE resolveHeartbeatReplyPayload(_)
resolveHeartbeatReplyPayload(replyResult) ==
    IF replyResult = <<>> THEN 0
    ELSE IF HasText(replyResult[Len(replyResult)])
            \/ PayloadHasMedia(replyResult[Len(replyResult)])
         THEN Len(replyResult)
         ELSE resolveHeartbeatReplyPayload(DropLast(replyResult))

IsReasoningText(p) ==
    StartsWith(TrimStart(IF p.text = NoText THEN <<>> ELSE p.text), <<"R">>)

\* resolveHeartbeatReasoningPayloads: the indices, in reply order, of the
\* payloads whose text starts with "Reasoning:".
RECURSIVE resolveHeartbeatReasoningPayloads(_)
resolveHeartbeatReasoningPayloads(replyResult) ==
    IF replyResult = <<>> THEN <<>>
    ELSE LET rest == resolveHeartbeatReasoningPayloads(DropLast(replyResult))
         IN  IF IsReasoningText(replyResult[Len(replyResult)])
             THEN Append(rest, Len(replyResult))
             ELSE rest

\* Array.prototype.filter on a sequence of indices
RECURSIVE FilterNot(_, _)
FilterNot(idxs, x) ==
    IF idxs = <<>> THEN <<>>
    ELSE IF Head(idxs) = x THEN FilterNot(Tail(idxs), x)
         ELSE <<Head(idxs)>> \o FilterNot(Tail(idxs), x)

\* stripTokenAtEdges (auto-reply/heartbeat): the ack token is removed from
\* the start and from the end of the trimmed text, as often as it is there.
RECURSIVE stripTokenAtEdges(_)
stripTokenAtEdges(t) ==
    LET s == Trim(t)
    IN  IF s # <<>> /\ Head(s) = "OK" THEN stripTokenAtEdges(Tail(s))
        ELSE IF s # <<>> /\ s[Len(s)] = "OK" THEN stripTokenAtEdges(DropLast(s))
        ELSE s

\* stripHeartbeatToken(raw, {mode: "heartbeat", maxAckChars})
stripHeartbeatToken(raw, maxAckChars) ==
    IF raw = NoText \/ Trim(raw) = <<>>
    THEN [shouldSkip |-> TRUE, text |-> <<>>]
    ELSE LET trimmed == Trim(raw)
             text == stripTokenAtEdges(trimmed)
         IN  IF text = trimmed THEN [shouldSkip |-> FALSE, text |-> trimmed]
             ELSE IF text = <<>> \/ TextLen(text) <= maxAckChars
                  THEN [shouldSkip |-> TRUE, text |-> <<>>]
                  ELSE [shouldSkip |-> FALSE, text |-> text]

\* normalizeHeartbeatReply keeping the raw text of a reply it does not skip
normalizeHeartbeatReplyRawText(payload, responsePrefix, ackMaxChars) ==
    LET stripped == stripHeartbeatToken(payload.text, ackMaxChars)
        hasMedia == PayloadHasMedia(payload)
    IN  IF stripped.shouldSkip /\ ~hasMedia
        THEN [shouldSkip |-> TRUE, text |-> <<>>, hasMedia |-> hasMedia]
        ELSE [shouldSkip |-> FALSE,
              text |-> IF payload.text = NoText THEN <<>> ELSE Trim(payload.text),
              hasMedia |-> hasMedia]

\* normalizeHeartbeatReply (lines 510-532); responsePrefix is <<>> when unset
normalizeHeartbeatReply(payload, responsePrefix, ackMaxChars) ==
    LET stripped == stripHeartbeatToken(payload.text, ackMaxChars)
        hasMedia == PayloadHasMedia(payload)
        finalText ==
            IF responsePrefix # <<>> /\ stripped.text # <<>>
               /\ ~StartsWith(stripped.text, responsePrefix)
            THEN responsePrefix \o <<"sp">> \o stripped.text
            ELSE stripped.text
    IN  IF stripped.shouldSkip /\ ~hasMedia
        THEN [shouldSkip |-> TRUE, text |-> <<>>, hasMedia |-> hasMedia]
        ELSE [shouldSkip |-> FALSE, text |-> finalText, hasMedia |-> hasMedia]

\* resolveHeartbeatAckMaxChars (lines 207-214); ackMaxChars is Unset when
\* neither the agent nor the defaults configure it
Unset == 0 - 1000
resolveHeartbeatAckMaxChars(heartbeat) ==
    Max(0, IF heartbeat.ackMaxChars = Unset
           THEN DEFAULT_HEARTBEAT_ACK_MAX_CHARS
           ELSE heartbeat.ackMaxChars)

\* lines 653-654: replyPayload.mediaUrls ?? (mediaUrl ? [mediaUrl] : [])
MainMediaUrls(p) ==
    IF p.mediaUrls # NoList THEN p.mediaUrls
    ELSE IF p.mediaUrl # "" THEN <<p.mediaUrl>> ELSE <<>>

----------------------------------------------------------------------------
\* Configuration.  A heartbeat block is a record whose fields may be unset:
\* every is EveryUnset, ackMaxChars is Unset, target and to are "", prompt is
\* NoText, includeReasoning and includeDeliveryChannelHistory are "unset".

Every(n, unit) == [set |-> TRUE, valid |-> TRUE, n |-> n, unit |-> unit]
EveryUnset == [set |-> FALSE, valid |-> TRUE, n |-> 0, unit |-> ""]
EveryInvalid == [set |-> TRUE, valid |-> FALSE, n |-> 0, unit |-> ""]
\* every: "" or blanks only
EveryBlank == [set |-> TRUE, valid |-> FALSE, n |-> 0, unit |-> "blank"]

\* DEFAULT_HEARTBEAT_EVERY (auto-reply/heartbeat): "30m"
DEFAULT_HEARTBEAT_EVERY == Every(30, "m")

NoHeartbeat ==
    [present |-> FALSE, every |-> EveryUnset, ackMaxChars |-> Unset,
     target |-> "", to |-> "", includeReasoning |-> "unset",
     prompt |-> NoText, includeDeliveryChannelHistory |-> "unset"]

Heartbeat(every, target, to, ackMaxChars, includeReasoning) ==
    [present |-> TRUE, every |-> every, ackMaxChars |-> ackMaxChars,
     target |-> target, to |-> to, includeReasoning |-> includeReasoning,
     prompt |-> NoText, includeDeliveryChannelHistory |-> "unset"]

\* parseDurationMs(raw, {defaultUnit: "m"}) (cli/parse-duration); the result
\* is Undef where the function throws
parseDurationMs(every) ==
    IF ~every.valid \/ every.n < 0 THEN Undef
    ELSE CASE every.unit = "h" -> every.n * HOUR
           [] every.unit = "m" -> every.n * MINUTE
           [] every.unit = "" -> every.n * MINUTE
           [] OTHER -> Undef

\* The interval with a duration of zero let through
resolveHeartbeatIntervalMsZeroAllowed(c, overrideEvery, heartbeat) ==
    LET raw == IF overrideEvery.set THEN overrideEvery
               ELSE IF heartbeat.every.set THEN heartbeat.every
               ELSE IF c.defaults.every.set THEN c.defaults.every
               ELSE DEFAULT_HEARTBEAT_EVERY
    IN  IF raw = EveryBlank THEN Undef
        ELSE LET ms == parseDurationMs(raw)
             IN  IF ms = Undef \/ ms < 0 THEN Undef ELSE ms

\* resolveHeartbeatIntervalMs (lines 180-201); an unset overrideEvery or
\* every stands for undefined, Undef stands for null
resolveHeartbeatIntervalMs(c, overrideEvery, heartbeat) ==
    LET raw == IF overrideEvery.set THEN overrideEvery
               ELSE IF heartbeat.every.set THEN heartbeat.every
               ELSE IF c.defaults.every.set THEN c.defaults.every
               ELSE DEFAULT_HEARTBEAT_EVERY
    IN  IF raw = EveryBlank THEN Undef
        ELSE LET ms == parseDurationMs(raw)
             IN  IF ms = Undef \/ ms <= 0 THEN Undef ELSE ms

\* hasExplicitHeartbeatAgents (lines 89-92)
hasExplicitHeartbeatAgents(c) ==
    \E i \in 1..Len(c.list) : c.list[i].heartbeat.present

\* resolveDefaultAgentId (agents/agent-scope): the first entry marked
\* default, else the first entry, else "main"
resolveDefaultAgentId(c) ==
    IF c.list = <<>> THEN "main"
    ELSE IF \E i \in 1..Len(c.list) : c.list[i].default
         THEN c.list[CHOOSE i \in 1..Len(c.list) :
                        /\ c.list[i].default
                        /\ \A j \in 1..(i - 1) : ~c.list[j].default].id
         ELSE c.list[1].id

\* Heartbeats enabled for the default agent whatever the list says
isHeartbeatEnabledForAgentDefaultOnly(c, agentId) ==
    agentId = resolveDefaultAgentId(c)

\* isHeartbeatEnabledForAgent (lines 94-104)
isHeartbeatEnabledForAgent(c, agentId) ==
    IF hasExplicitHeartbeatAgents(c)
    THEN \E i \in 1..Len(c.list) :
            c.list[i].heartbeat.present /\ c.list[i].id = agentId
    ELSE agentId = resolveDefaultAgentId(c)

\* The spread with the operands exchanged: `{ ...overrides, ...defaults }`
MergeHeartbeatDefaultsLast(defaults, overrides) ==
    [present |-> TRUE,
     every |-> IF defaults.every.set THEN defaults.every ELSE overrides.every,
     ackMaxChars |-> IF defaults.ackMaxChars # Unset THEN defaults.ackMaxChars
                     ELSE overrides.ackMaxChars,
     target |-> IF defaults.target # "" THEN defaults.target
                ELSE overrides.target,
     to |-> IF defaults.to # "" THEN defaults.to ELSE overrides.to,
     includeReasoning |-> IF defaults.includeReasoning # "unset"
                          THEN defaults.includeReasoning
                          ELSE overrides.includeReasoning,
     prompt |-> IF defaults.prompt # NoText THEN defaults.prompt
                ELSE overrides.prompt,
     includeDeliveryChannelHistory |->
         IF defaults.includeDeliveryChannelHistory # "unset"
         THEN defaults.includeDeliveryChannelHistory
         ELSE overrides.includeDeliveryChannelHistory]

\* `{ ...defaults, ...overrides }` on heartbeat blocks
MergeHeartbeat(defaults, overrides) ==
    [present |-> TRUE,
     every |-> IF overrides.every.set THEN overrides.every ELSE defaults.every,
     ackMaxChars |-> IF overrides.ackMaxChars # Unset THEN overrides.ackMaxChars
                     ELSE defaults.ackMaxChars,
     target |-> IF overrides.target # "" THEN overrides.target
                ELSE defaults.target,
     to |-> IF overrides.to # "" THEN overrides.to ELSE defaults.to,
     includeReasoning |-> IF overrides.includeReasoning # "unset"
                          THEN overrides.includeReasoning
                          ELSE defaults.includeReasoning,
     prompt |-> IF overrides.prompt # NoText THEN overrides.prompt
                ELSE defaults.prompt,
     includeDeliveryChannelHistory |->
         IF overrides.includeDeliveryChannelHistory # "unset"
         THEN overrides.includeDeliveryChannelHistory
         ELSE defaults.includeDeliveryChannelHistory]

\* HEARTBEAT_PROMPT (auto-reply/heartbeat): the default prompt, one atom
HEARTBEAT_PROMPT == <<"P">>

\* resolveHeartbeatPrompt of auto-reply/heartbeat, imported at line 13 as
\* resolveHeartbeatPromptText: the trimmed text, the default when it is blank
resolveHeartbeatPromptText(raw) ==
    IF raw = NoText THEN HEARTBEAT_PROMPT
    ELSE IF Trim(raw) = <<>> THEN HEARTBEAT_PROMPT ELSE Trim(raw)

\* resolveHeartbeatPrompt (lines 203-205)
resolveHeartbeatPrompt(c, heartbeat) ==
    resolveHeartbeatPromptText(IF heartbeat.prompt # NoText THEN heartbeat.prompt
                               ELSE c.defaults.prompt)

\* lines 589-598: the Body of the context handed to the agent; "CTX" stands
\* for the channel context block and the blank line after it
HeartbeatBody(channelContext, prompt) ==
    IF channelContext THEN <<"CTX">> \o prompt ELSE prompt

\* resolveAgentConfig(cfg, agentId)?.heartbeat (agents/agent-scope)
AgentHeartbeat(c, agentId) ==
    IF \E i \in 1..Len(c.list) : c.list[i].id = agentId
    THEN c.list[CHOOSE i \in 1..Len(c.list) :
                   /\ c.list[i].id = agentId
                   /\ \A j \in 1..(i - 1) : c.list[j].id # agentId].heartbeat
    ELSE NoHeartbeat

\* resolveHeartbeatConfig (lines 106-115)
resolveHeartbeatConfig(c, agentId) ==
    LET defaults == c.defaults
        overrides == AgentHeartbeat(c, agentId)
    IN  IF ~defaults.present /\ ~overrides.present THEN overrides
        ELSE MergeHeartbeat(defaults, overrides)

\* Array.prototype.filter on the agents list: the entries with a heartbeat
RECURSIVE ExplicitHeartbeatAgents(_, _)
ExplicitHeartbeatAgents(c, list) ==
    IF list = <<>> THEN <<>>
    ELSE LET rest == ExplicitHeartbeatAgents(c, Tail(list))
         IN  IF Head(list).heartbeat.present
             THEN <<[agentId |-> Head(list).id,
                     heartbeat |-> resolveHeartbeatConfig(c, Head(list).id)]>>
                  \o rest
             ELSE rest

\* resolveHeartbeatAgents (lines 165-178)
resolveHeartbeatAgents(c) ==
    IF hasExplicitHeartbeatAgents(c) THEN ExplicitHeartbeatAgents(c, c.list)
    ELSE <<[agentId |-> resolveDefaultAgentId(c),
            heartbeat |-> resolveHeartbeatConfig(c, resolveDefaultAgentId(c))]>>

----------------------------------------------------------------------------
\* Sessions and delivery targets.

AgentIds == {"main", "ops", "off"}

MainKey(agentId) == <<"agent", agentId, "main">>
GlobalKey == <<"global">>
SessionKeys == {MainKey(a) : a \in AgentIds} \cup {GlobalKey}

NoEntry ==
    [present |-> FALSE, updatedAt |-> Undef, lastChannel |-> "", lastTo |-> "",
     lastHeartbeatText |-> NoText, lastHeartbeatSentAt |-> Undef]

Entry(updatedAt, lastChannel, lastTo, text, sentAt) ==
    [present |-> TRUE, updatedAt |-> updatedAt, lastChannel |-> lastChannel,
     lastTo |-> lastTo, lastHeartbeatText |-> text,
     lastHeartbeatSentAt |-> sentAt]

\* resolveHeartbeatSession (lines 216-227): the session key of the run
resolveHeartbeatSession(c, agentId) ==
    IF c.scope = "global" THEN GlobalKey ELSE MainKey(agentId)

\* An internal channel that no session entry names
INTERNAL_CHANNEL_UNUSED == "internal"

\* INTERNAL_MESSAGE_CHANNEL (utils/message-channel)
INTERNAL_MESSAGE_CHANNEL == "webchat"

GroupJids == {"120363@g.us"}
\* isWhatsAppGroupJid (whatsapp/normalize)
isWhatsAppGroupJid(to) == to \in GroupJids

\* String.prototype.trim on the recipients and allow-list entries modelled
TrimTarget(to) ==
    IF to = " +1222" THEN "+1222" ELSE IF to = " " THEN "" ELSE to

\* The recipients that are normal forms: E.164 numbers and a group JID
NormalTargets == {"+1555", "+1666", "+1222", "+1999"} \cup GroupJids

\* normalizeWhatsAppTarget (whatsapp/normalize): drops the "whatsapp:"
\* prefix, lower-cases a group JID; "" stands for null
normalizeWhatsAppTarget(to) ==
    IF to = "whatsapp:+1222" THEN "+1222"
    ELSE IF to = "whatsapp:120363@G.US" THEN "120363@g.us"
    ELSE IF to \in NormalTargets THEN to
    ELSE ""

\* lines 307-312: the allow-list trimmed, without "*", normalized, without
\* the entries that have no normal form
WhatsAppAllowListRaw(allowFrom) ==
    LET trimmed == [i \in 1..Len(allowFrom) |-> TrimTarget(allowFrom[i])]
        NonEmpty(x) == x # ""
    IN  SelectSeq(trimmed, NonEmpty)

WhatsAppAllowList(allowFrom) ==
    LET raw == WhatsAppAllowListRaw(allowFrom)
        NotWildcard(x) == x # "*"
        named == SelectSeq(raw, NotWildcard)
        normalized == [i \in 1..Len(named) |-> normalizeWhatsAppTarget(named[i])]
        NonEmpty(x) == x # ""
    IN  SelectSeq(normalized, NonEmpty)

InSeq(x, seq) == \E i \in 1..Len(seq) : seq[i] = x

TargetOk(to) == [ok |-> TRUE, to |-> to]
\* missingTargetError
TargetError == [ok |-> FALSE, to |-> ""]

\* The resolver with no substitution of an allow-list entry for a recipient
\* that has a normal form
whatsappResolveTargetNoFallback(to, allowFrom, mode) ==
    LET Resolve(trimmed, hasWildcard, allowList) ==
            IF trimmed # ""
            THEN LET Normalized(normalizedTo) ==
                         IF normalizedTo = ""
                         THEN IF mode \in {"implicit", "heartbeat"}
                                 /\ Len(allowList) > 0
                              THEN TargetOk(allowList[1])
                              ELSE TargetError
                         ELSE TargetOk(normalizedTo)
                 IN  Normalized(normalizeWhatsAppTarget(trimmed))
            ELSE IF Len(allowList) > 0 THEN TargetOk(allowList[1])
            ELSE TargetError
    IN  Resolve(TrimTarget(to), InSeq("*", WhatsAppAllowListRaw(allowFrom)),
                WhatsAppAllowList(allowFrom))

\* The resolver with a group JID treated as any other recipient
whatsappResolveTargetGroupsChecked(to, allowFrom, mode) ==
    LET Resolve(trimmed, hasWildcard, allowList) ==
            IF trimmed # ""
            THEN LET Normalized(normalizedTo) ==
                         IF normalizedTo = ""
                         THEN IF mode \in {"implicit", "heartbeat"}
                                 /\ Len(allowList) > 0
                              THEN TargetOk(allowList[1])
                              ELSE TargetError
                         ELSE IF mode \in {"implicit", "heartbeat"}
                         THEN IF hasWildcard \/ Len(allowList) = 0
                              THEN TargetOk(normalizedTo)
                              ELSE IF InSeq(normalizedTo, allowList)
                              THEN TargetOk(normalizedTo)
                              ELSE TargetOk(allowList[1])
                         ELSE TargetOk(normalizedTo)
                 IN  Normalized(normalizeWhatsAppTarget(trimmed))
            ELSE IF Len(allowList) > 0 THEN TargetOk(allowList[1])
            ELSE TargetError
    IN  Resolve(TrimTarget(to), InSeq("*", WhatsAppAllowListRaw(allowFrom)),
                WhatsAppAllowList(allowFrom))

\* The resolver with the wildcard taken as no entry at all
whatsappResolveTargetWildcardIgnored(to, allowFrom, mode) ==
    LET Resolve(trimmed, hasWildcard, allowList) ==
            IF trimmed # ""
            THEN LET Normalized(normalizedTo) ==
                         IF normalizedTo = ""
                         THEN IF mode \in {"implicit", "heartbeat"}
                                 /\ Len(allowList) > 0
                              THEN TargetOk(allowList[1])
                              ELSE TargetError
                         ELSE IF isWhatsAppGroupJid(normalizedTo)
                         THEN TargetOk(normalizedTo)
                         ELSE IF mode \in {"implicit", "heartbeat"}
                         THEN IF Len(allowList) = 0
                              THEN TargetOk(normalizedTo)
                              ELSE IF InSeq(normalizedTo, allowList)
                              THEN TargetOk(normalizedTo)
                              ELSE TargetOk(allowList[1])
                         ELSE TargetOk(normalizedTo)
                 IN  Normalized(normalizeWhatsAppTarget(trimmed))
            ELSE IF Len(allowList) > 0 THEN TargetOk(allowList[1])
            ELSE TargetError
    IN  Resolve(TrimTarget(to), InSeq("*", WhatsAppAllowListRaw(allowFrom)),
                WhatsAppAllowList(allowFrom))

\* whatsappPlugin.outbound.resolveTarget (whatsapp.ts, lines 305-353);
\* Resolve and Normalized bind the constants trimmed, hasWildcard, allowList
\* and normalizedTo of the source
whatsappResolveTarget(to, allowFrom, mode) ==
    LET Resolve(trimmed, hasWildcard, allowList) ==
            IF trimmed # ""
            THEN LET Normalized(normalizedTo) ==
                         IF normalizedTo = ""
                         THEN IF mode \in {"implicit", "heartbeat"}
                                 /\ Len(allowList) > 0
                              THEN TargetOk(allowList[1])
                              ELSE TargetError
                         ELSE IF isWhatsAppGroupJid(normalizedTo)
                         THEN TargetOk(normalizedTo)
                         ELSE IF mode \in {"implicit", "heartbeat"}
                         THEN IF hasWildcard \/ Len(allowList) = 0
                              THEN TargetOk(normalizedTo)
                              ELSE IF InSeq(normalizedTo, allowList)
                              THEN TargetOk(normalizedTo)
                              ELSE TargetOk(allowList[1])
                         ELSE TargetOk(normalizedTo)
                 IN  Normalized(normalizeWhatsAppTarget(trimmed))
            ELSE IF Len(allowList) > 0 THEN TargetOk(allowList[1])
            ELSE TargetError
    IN  Resolve(TrimTarget(to), InSeq("*", WhatsAppAllowListRaw(allowFrom)),
                WhatsAppAllowList(allowFrom))

\* resolveOutboundTarget (infra/outbound/targets): the channel plugin's
\* resolveTarget with the channel's allow-list; a channel other than
\* WhatsApp takes the recipient as given
resolveOutboundTarget(c, channel, to, mode) ==
    IF channel = "whatsapp" THEN whatsappResolveTarget(to, c.allowFrom, mode)
    ELSE IF to # "" THEN TargetOk(to) ELSE TargetError

NoDelivery(reason) ==
    [channel |-> "none", to |-> "", reason |-> reason, lastChannel |-> ""]

\* The last channel of the entry as the delivery target reports it
DeliveryLastChannel(entry) ==
    IF entry.lastChannel = INTERNAL_MESSAGE_CHANNEL THEN "" ELSE entry.lastChannel

\* The channel and the recipient that the target setting selects, steps 1 to
\* 3 of Section 4.1 of the specification
SelectedRoute(entry, heartbeat) ==
    LET target == IF heartbeat.target = "" THEN "last" ELSE heartbeat.target
    IN  IF target = "none" THEN NoDelivery("target-none")
        ELSE IF target = "last"
        THEN IF entry.lastChannel = "" \/ entry.lastTo = ""
                \/ entry.lastChannel = INTERNAL_MESSAGE_CHANNEL
             THEN NoDelivery("no-target")
             ELSE [NoDelivery("") EXCEPT !.channel = entry.lastChannel,
                                         !.to = entry.lastTo]
        ELSE IF heartbeat.to # ""
        THEN [NoDelivery("") EXCEPT !.channel = target, !.to = heartbeat.to]
        ELSE IF entry.lastChannel = target /\ entry.lastTo # ""
        THEN [NoDelivery("") EXCEPT !.channel = target, !.to = entry.lastTo]
        ELSE NoDelivery("no-target")

\* The delivery target with target "none" taken as "last"
resolveHeartbeatDeliveryTargetNoneAsLast(c, entry, heartbeat) ==
    LET Deliver(route, lastChannel) ==
            IF route.channel = "none"
            THEN [route EXCEPT !.lastChannel = lastChannel]
            ELSE LET Pick(resolved, explicit) ==
                         IF ~resolved.ok
                         THEN [NoDelivery("no-target")
                                  EXCEPT !.lastChannel = lastChannel]
                         ELSE [channel |-> route.channel, to |-> resolved.to,
                               reason |->
                                   IF explicit.ok /\ explicit.to # resolved.to
                                   THEN "allowFrom-fallback" ELSE "",
                               lastChannel |-> lastChannel]
                 IN  Pick(resolveOutboundTarget(c, route.channel, route.to,
                                                "heartbeat"),
                          resolveOutboundTarget(c, route.channel, route.to,
                                                "explicit"))
    IN  Deliver(SelectedRoute(entry, [heartbeat EXCEPT !.target =
                                         IF @ = "none" THEN "last" ELSE @]),
                DeliveryLastChannel(entry))

\* resolveHeartbeatDeliveryTarget (infra/outbound/targets), Section 4.1 of
\* the specification: the selected route, its recipient resolved by the
\* channel in heartbeat mode (steps 4 to 6)
resolveHeartbeatDeliveryTarget(c, entry, heartbeat) ==
    LET Deliver(route, lastChannel) ==
            IF route.channel = "none"
            THEN [route EXCEPT !.lastChannel = lastChannel]
            ELSE LET Pick(resolved, explicit) ==
                         IF ~resolved.ok
                         THEN [NoDelivery("no-target")
                                  EXCEPT !.lastChannel = lastChannel]
                         ELSE [channel |-> route.channel, to |-> resolved.to,
                               reason |->
                                   IF explicit.ok /\ explicit.to # resolved.to
                                   THEN "allowFrom-fallback" ELSE "",
                               lastChannel |-> lastChannel]
                 IN  Pick(resolveOutboundTarget(c, route.channel, route.to,
                                                "heartbeat"),
                          resolveOutboundTarget(c, route.channel, route.to,
                                                "explicit"))
    IN  Deliver(SelectedRoute(entry, heartbeat),
                DeliveryLastChannel(entry))

NoKey == <<>>

\* resolveHeartbeatDeliverySessionKey (lines 282-347), the WhatsApp case
resolveHeartbeatDeliverySessionKey(mainSessionKey, channel, to) ==
    IF mainSessionKey = GlobalKey THEN NoKey
    ELSE IF to = "" THEN NoKey
    ELSE IF channel = "whatsapp" /\ isWhatsAppGroupJid(to)
    THEN <<"agent", mainSessionKey[2], "whatsapp", "group", to>>
    ELSE NoKey

\* The delivery sessions: the WhatsApp group sessions of the agents
GroupJid == "120363@g.us"

DeliveryKeys ==
    {resolveHeartbeatDeliverySessionKey(MainKey(a), "whatsapp", GroupJid) :
        a \in {"main", "ops"}}

\* The write lock of a transcript in this process: free, or held by the run
\* of a slot
FreeLock == [held |-> FALSE, by |-> 0]

HeldBy(holder) == [held |-> TRUE, by |-> holder]

\* A message of a transcript
Message(role, text) == [role |-> role, text |-> text]

\* A delivery session whose store entry has no session id and whose
\* transcript file does not exist
NoTranscript ==
    [sessionId |-> "", exists |-> FALSE, readable |-> TRUE, messages |-> <<>>]

\* The readiness check looking at the linked account before the web switch
whatsappCheckReadyAuthFirst(webEnabled, authExists, listenerActive) ==
    IF ~authExists THEN [ok |-> FALSE, reason |-> "whatsapp-not-linked"]
    ELSE IF ~webEnabled THEN [ok |-> FALSE, reason |-> "whatsapp-disabled"]
    ELSE IF ~listenerActive
    THEN [ok |-> FALSE, reason |-> "whatsapp-not-running"]
    ELSE [ok |-> TRUE, reason |-> "ok"]

\* whatsappPlugin.heartbeat.checkReady (whatsapp.ts lines 386-403)
whatsappCheckReady(webEnabled, authExists, listenerActive) ==
    IF ~webEnabled THEN [ok |-> FALSE, reason |-> "whatsapp-disabled"]
    ELSE IF ~authExists THEN [ok |-> FALSE, reason |-> "whatsapp-not-linked"]
    ELSE IF ~listenerActive
    THEN [ok |-> FALSE, reason |-> "whatsapp-not-running"]
    ELSE [ok |-> TRUE, reason |-> "ok"]

\* `heartbeatPlugin?.heartbeat?.checkReady` (line 707): of the channels
\* modelled, WhatsApp has a readiness check and Telegram has none
HasCheckReady(channel) == channel = "whatsapp"

----------------------------------------------------------------------------
\* Session keys of the channel plugins.  A key and a target are the sequence
\* of their segments between colons: "agent:main:discord:channel:123" is
\* <<"agent", "main", "discord", "channel", "123">>.

DEFAULT_AGENT_ID == "main"
DEFAULT_MAIN_KEY == "main"

\* `.trim()` of a joined text being empty
BlankSegments(segs) == \A i \in 1..Len(segs) : segs[i] \in {"", " "}

\* `.split(":").filter(Boolean)`
RECURSIVE FilterSegments(_)
FilterSegments(segs) ==
    IF segs = <<>> THEN <<>>
    ELSE IF Head(segs) = "" THEN FilterSegments(Tail(segs))
    ELSE <<Head(segs)>> \o FilterSegments(Tail(segs))

\* normalizeAgentId (routing/session-key.ts): an id of letters, digits, "_"
\* and "-" is kept as written, any other is lower-cased with its invalid
\* characters collapsed to "-", a blank one is the default agent
normalizeAgentId(value) ==
    IF value \in {"", " "} THEN DEFAULT_AGENT_ID
    ELSE IF value = "My Agent" THEN "my-agent"
    ELSE value

\* normalizeMainKey
normalizeMainKey(value) ==
    IF value \in {"", " "} THEN DEFAULT_MAIN_KEY ELSE value

\* parseAgentSessionKey
parseAgentSessionKey(sessionKey) ==
    LET Parse(parts) ==
            IF Len(parts) < 3 THEN [ok |-> FALSE, agentId |-> "", rest |-> <<>>]
            ELSE IF parts[1] # "agent"
            THEN [ok |-> FALSE, agentId |-> "", rest |-> <<>>]
            ELSE IF parts[2] = " "
            THEN [ok |-> FALSE, agentId |-> "", rest |-> <<>>]
            ELSE [ok |-> TRUE, agentId |-> parts[2],
                  rest |-> SubSeq(parts, 3, Len(parts))]
    IN  Parse(FilterSegments(sessionKey))

\* resolveAgentIdFromSessionKey
resolveAgentIdFromSessionKey(sessionKey) ==
    LET Resolve(parsed) ==
            normalizeAgentId(IF parsed.ok THEN parsed.agentId
                             ELSE DEFAULT_AGENT_ID)
    IN  Resolve(parseAgentSessionKey(sessionKey))

\* resolveMainKeyFromSessionKey
resolveMainKeyFromSessionKey(sessionKey) ==
    LET Resolve(parsed) ==
            IF ~parsed.ok THEN DEFAULT_MAIN_KEY
            ELSE IF BlankSegments(parsed.rest) \/ Len(parsed.rest) > 1
            THEN DEFAULT_MAIN_KEY
            ELSE normalizeMainKey(parsed.rest[1])
    IN  Resolve(parseAgentSessionKey(sessionKey))

\* buildAgentMainSessionKey
buildAgentMainSessionKey(agentId, mainKey) ==
    <<"agent", normalizeAgentId(agentId), normalizeMainKey(mainKey)>>

\* `(params.channel ?? "").trim().toLowerCase() || "unknown"`
PeerChannel(channel) == IF channel \in {"", " "} THEN "unknown" ELSE channel

\* buildAgentPeerSessionKey with every peer kind taken as a direct message
buildAgentPeerSessionKeyAllDirect(agentId, mainKey, channel, peerKind, peerId, dmScope) ==
    IF dmScope = "per-channel-peer" /\ ~BlankSegments(peerId)
    THEN <<"agent", normalizeAgentId(agentId), PeerChannel(channel), "dm">>
         \o peerId
    ELSE IF dmScope = "per-peer" /\ ~BlankSegments(peerId)
    THEN <<"agent", normalizeAgentId(agentId), "dm">> \o peerId
    ELSE buildAgentMainSessionKey(agentId, mainKey)

\* buildAgentPeerSessionKey; no identity links are configured, so
\* resolveLinkedPeerId finds none
buildAgentPeerSessionKey(agentId, mainKey, channel, peerKind, peerId, dmScope) ==
    IF peerKind = "dm"
    THEN IF dmScope = "per-channel-peer" /\ ~BlankSegments(peerId)
         THEN <<"agent", normalizeAgentId(agentId), PeerChannel(channel),
                "dm">> \o peerId
         ELSE IF dmScope = "per-peer" /\ ~BlankSegments(peerId)
         THEN <<"agent", normalizeAgentId(agentId), "dm">> \o peerId
         ELSE buildAgentMainSessionKey(agentId, mainKey)
    ELSE <<"agent", normalizeAgentId(agentId), PeerChannel(channel),
           peerKind>>
         \o (IF BlankSegments(peerId) THEN <<"unknown">> ELSE peerId)

\* buildSessionKeyFromContext
buildSessionKeyFromContext(mainSessionKey, channel, peerKind, peerId, dmScope) ==
    buildAgentPeerSessionKey(resolveAgentIdFromSessionKey(mainSessionKey),
                             resolveMainKeyFromSessionKey(mainSessionKey),
                             channel, peerKind, peerId, dmScope)

\* A channel prefix in front of a target ("discord:", "telegram:")
StripChannel(to, channel) ==
    IF to # <<>> /\ Head(to) = channel THEN Tail(to) ELSE to

\* normalizeDiscordMessagingTarget: the target without its channel prefix,
\* a bare id as a channel; <<>> for a blank target
normalizeDiscordMessagingTarget(to) ==
    LET Normalize(raw) ==
            IF BlankSegments(raw) THEN <<>>
            ELSE IF Len(raw) = 1 THEN <<"channel">> \o raw
            ELSE raw
    IN  Normalize(StripChannel(to, "discord"))

\* discordPlugin.messaging.resolveTargetSessionKey
discordResolveTargetSessionKey(dmScope, mainSessionKey, to) ==
    LET Resolve(normalized) ==
            IF normalized = <<>> THEN NoKey
            ELSE IF BlankSegments(Tail(normalized)) THEN NoKey
            ELSE buildSessionKeyFromContext(
                     mainSessionKey, "discord",
                     IF Head(normalized) = "user" THEN "dm" ELSE "channel",
                     Tail(normalized), dmScope)
    IN  IF to = <<>> THEN NoKey
        ELSE Resolve(normalizeDiscordMessagingTarget(to))

\* normalizeTelegramMessagingTarget: the target under the prefix "telegram:";
\* <<>> for a blank target
normalizeTelegramMessagingTarget(to) ==
    LET Normalize(raw) ==
            IF BlankSegments(raw) THEN <<>> ELSE <<"telegram">> \o raw
    IN  Normalize(StripChannel(to, "telegram"))

\* parseTelegramTarget: the prefixes "telegram:" and "group:" are dropped,
\* "<chatId>:topic:<threadId>" is split
parseTelegramTarget(to) ==
    LET Parse(raw) ==
            IF Len(raw) = 3 /\ raw[2] = "topic"
            THEN [chatId |-> raw[1], messageThreadId |-> raw[3]]
            ELSE IF Len(raw) = 1
            THEN [chatId |-> raw[1], messageThreadId |-> ""]
            ELSE [chatId |-> "", messageThreadId |-> ""]
    IN  Parse(StripChannel(StripChannel(to, "telegram"), "group"))

\* buildTelegramGroupPeerId
buildTelegramGroupPeerId(chatId, messageThreadId) ==
    IF messageThreadId # "" THEN <<chatId, "topic", messageThreadId>>
    ELSE <<chatId>>

\* `chatId.startsWith("-") || chatId.startsWith("@")`
GroupChatIds == {"-100", "@news"}

\* telegramPlugin.messaging.resolveTargetSessionKey (telegram.ts lines
\* 170-192)
telegramResolveTargetSessionKey(dmScope, mainSessionKey, to) ==
    LET Resolve(parsed, hasGroupPrefix) ==
            LET Build(isGroup) ==
                    buildSessionKeyFromContext(
                        mainSessionKey, "telegram",
                        IF isGroup THEN "group" ELSE "dm",
                        IF isGroup
                        THEN buildTelegramGroupPeerId(parsed.chatId,
                                                      parsed.messageThreadId)
                        ELSE <<parsed.chatId>>,
                        dmScope)
            IN  IF parsed.chatId \in {"", " "} THEN NoKey
                ELSE Build(\/ hasGroupPrefix
                           \/ parsed.messageThreadId # ""
                           \/ parsed.chatId \in GroupChatIds)
    IN  IF to = <<>> THEN NoKey
        ELSE IF normalizeTelegramMessagingTarget(to) = <<>> THEN NoKey
        ELSE Resolve(parseTelegramTarget(normalizeTelegramMessagingTarget(to)),
                     StripChannel(to, "telegram") # <<>>
                        /\ Head(StripChannel(to, "telegram")) = "group")

----------------------------------------------------------------------------
\* restoreHeartbeatUpdatedAt (lines 489-508): the store after the call

\* The restore as a plain assignment of the pre-run value
restoreHeartbeatUpdatedAtAssigns(st, sessionKey, updatedAt) ==
    IF updatedAt = Undef THEN st
    ELSE IF ~st[sessionKey].present THEN st
    ELSE [st EXCEPT ![sessionKey].updatedAt = updatedAt]

restoreHeartbeatUpdatedAt(st, sessionKey, updatedAt) ==
    IF updatedAt = Undef THEN st
    ELSE IF ~st[sessionKey].present THEN st
    ELSE LET entry == st[sessionKey]
             nextUpdatedAt ==
                 Max(IF entry.updatedAt = Undef THEN 0 ELSE entry.updatedAt,
                     updatedAt)
         IN  IF entry.updatedAt = nextUpdatedAt THEN st
             ELSE [st EXCEPT ![sessionKey].updatedAt = nextUpdatedAt]

----------------------------------------------------------------------------
\* runHeartbeatOnce (lines 534-791).  run[s].pc is the await the run is
\* suspended at: "context" (buildHeartbeatChannelContext, line 591), "agent"
\* (getReplyFromConfig, line 608), "ready" (checkReady, line 708), "deliver"
\* (deliverOutboundPayloads, line 729), "save" (saveSessionStore, line 758),
\* "append" (appendHeartbeatToDeliverySession, line 764); "done" once it has
\* returned or thrown, "idle" when the slot holds no run.

NoResult == [status |-> "none", reason |-> ""]
Result(status, reason) == [status |-> status, reason |-> reason]

IdleRun ==
    [pc |-> "idle", agentId |-> "", heartbeat |-> NoHeartbeat,
     startedAt |-> Undef, sessionKey |-> NoKey, entry |-> NoEntry,
     previousUpdatedAt |-> Undef, delivery |-> NoDelivery(""),
     deliverySessionKey |-> NoKey, hasContext |-> FALSE, reply |-> <<>>,
     mainIdx |-> 0, shouldSkipMain |-> FALSE, text |-> <<>>,
     mediaUrls |-> <<>>, pending |-> <<>>, saving |-> <<>>, event |-> "",
     result |-> NoResult, ctxSessionKey |-> NoKey, readiness |-> <<>>,
     body |-> <<>>, emitted |-> NoResult, loaded |-> <<>>,
     appendNow |-> Undef, appended |-> ""]

\* The emitHeartbeatEvent call made on the way out of the run (lines 624,
\* 645, 676, 695, 714, 773, 783); the precondition returns of lines 541-557
\* and a throw before the try emit nothing
emitHeartbeatEvent(r, event, result) ==
    CASE event = "" -> NoResult
      [] event \in {"ok-empty", "ok-token", "sent"} -> Result(event, "")
      [] event = "duplicate" -> Result("skipped", "duplicate")
      [] event = "no-target" ->
            Result("skipped", IF r.delivery.reason # "" THEN r.delivery.reason
                              ELSE "no-target")
      [] event = "not-ready" -> Result("skipped", result.reason)
      [] OTHER -> Result("failed", result.reason)

Finished(r, event, result) ==
    [r EXCEPT !.pc = "done", !.event = event, !.result = result,
              !.pending = <<>>,
              !.emitted = emitHeartbeatEvent(r, event, result)]

\* The agent invoked inside the session the reply will be delivered to
CtxSessionKeyOfDelivery(sessionKey, deliverySessionKey) ==
    IF deliverySessionKey # NoKey THEN deliverySessionKey ELSE sessionKey

\* line 604: `SessionKey: sessionKey` of the context handed to the agent
CtxSessionKey(sessionKey, deliverySessionKey) == sessionKey

\* The queue check with the comparison off by one
QueueBusyOffByOne == queueSize > 1

\* lines 554-555: `queueSize > 0`
QueueBusy == queueSize > 0

\* lines 541-598: from the call to the first await
BeginRun(agentId, heartbeat) ==
    LET sessionKey == resolveHeartbeatSession(cfg, agentId)
        entry == store[sessionKey]
        delivery == resolveHeartbeatDeliveryTarget(cfg, entry, heartbeat)
        deliverySessionKey ==
            IF delivery.channel # "none"
            THEN resolveHeartbeatDeliverySessionKey(sessionKey,
                                                    delivery.channel,
                                                    delivery.to)
            ELSE NoKey
        r == [IdleRun EXCEPT !.agentId = agentId, !.heartbeat = heartbeat]
    IN  IF ~heartbeatsEnabled
        THEN Finished(r, "", Result("skipped", "disabled"))
        ELSE IF ~isHeartbeatEnabledForAgent(cfg, agentId)
        THEN Finished(r, "", Result("skipped", "disabled"))
        ELSE IF resolveHeartbeatIntervalMs(cfg, EveryUnset, heartbeat) = Undef
        THEN Finished(r, "", Result("skipped", "disabled"))
        ELSE IF QueueBusy
        THEN Finished(r, "", Result("skipped", "requests-in-flight"))
        ELSE [r EXCEPT
                !.pc = IF deliverySessionKey # NoKey
                          /\ deliverySessionKey # sessionKey
                       THEN "context" ELSE "agent",
                !.startedAt = now,
                !.sessionKey = sessionKey,
                !.entry = entry,
                !.previousUpdatedAt =
                    IF entry.present THEN entry.updatedAt ELSE Undef,
                !.delivery = delivery,
                !.deliverySessionKey = deliverySessionKey,
                !.ctxSessionKey = CtxSessionKey(sessionKey, deliverySessionKey),
                !.body = IF deliverySessionKey # NoKey
                            /\ deliverySessionKey # sessionKey
                         THEN <<>>
                         ELSE HeartbeatBody(FALSE,
                                            resolveHeartbeatPrompt(cfg, heartbeat))]

\* The call of runHeartbeatOnce in slot s
StartRun(s, agentId, heartbeat) ==
    LET r == BeginRun(agentId, heartbeat)
    IN  /\ run' = [run EXCEPT ![s] = r]
        /\ sends' = [sends EXCEPT ![s] = <<>>]
        /\ agentCalls' = [agentCalls EXCEPT ![s] = IF r.pc = "agent" THEN 1 ELSE 0]

\* lines 590-598: buildHeartbeatChannelContext returns a context block or
\* null, or throws (SessionManager.open, buildSessionContext); the call is
\* made before the try block of line 607 is entered
ContextThrowResult == Result("threw", "context")

BuildContext(s, outcome) ==
    /\ run[s].pc = "context"
    /\ run' = [run EXCEPT ![s] =
                 IF outcome = "throws"
                 THEN Finished(@, "", ContextThrowResult)
                 ELSE [@ EXCEPT !.pc = "agent",
                                !.hasContext = (outcome = "context"),
                                !.body = HeartbeatBody(
                                            outcome = "context",
                                            resolveHeartbeatPrompt(cfg, run[s].heartbeat))]]
    /\ agentCalls' = [agentCalls EXCEPT ![s] =
                        IF outcome = "throws" THEN @ ELSE @ + 1]
    /\ UNCHANGED <<now, ticks, cfg, heartbeatsEnabled, queueSize, store,
                   heartbeatAgents, lastRunByAgent, handler, timer,
                   pendingWake, sweep, sends, sweepLog, calls,
                   transcripts, sessionLock, systemEvents, prompts>>

\* lines 607-609, 781-790: getReplyFromConfig throws
AgentThrows(s) ==
    /\ run[s].pc = "agent"
    /\ run' = [run EXCEPT ![s] =
                 Finished(@, "agent-failed", Result("failed", "agent error"))]
    /\ UNCHANGED <<now, ticks, cfg, heartbeatsEnabled, queueSize, store,
                   heartbeatAgents, lastRunByAgent, handler, timer,
                   pendingWake, sweep, sends, agentCalls, sweepLog, calls,
                   transcripts, sessionLock, systemEvents, prompts>>

\* The agent turn's own write to the main session entry, updatedAt:
\* Date.now() (auto-reply/reply/session-updates.ts lines 99-119)
TouchSession(st, sessionKey) ==
    IF st[sessionKey].present
    THEN [st EXCEPT ![sessionKey].updatedAt = now]
    ELSE [st EXCEPT ![sessionKey] = Entry(now, "", "", NoText, Undef)]

RECURSIVE PayloadsAt(_, _)
PayloadsAt(replyResult, idxs) ==
    IF idxs = <<>> THEN <<>>
    ELSE <<[payload |-> replyResult[Head(idxs)], main |-> FALSE]>>
         \o PayloadsAt(replyResult, Tail(idxs))

\* The duplicate check with a window of one hour
isDuplicateMainHourWindow(shouldSkipMain, mediaUrls, text, entry, startedAt) ==
    /\ ~shouldSkipMain
    /\ Len(mediaUrls) = 0
    /\ entry.lastHeartbeatText # NoText
    /\ Trim(entry.lastHeartbeatText) # <<>>
    /\ Trim(text) = Trim(entry.lastHeartbeatText)
    /\ entry.lastHeartbeatSentAt # Undef
    /\ startedAt - entry.lastHeartbeatSentAt < HOUR

\* The duplicate window taken to include its end, 24 hours after the send
isDuplicateMainInclusiveWindow(shouldSkipMain, mediaUrls, text, entry, startedAt) ==
    /\ ~shouldSkipMain
    /\ Len(mediaUrls) = 0
    /\ entry.lastHeartbeatText # NoText
    /\ Trim(entry.lastHeartbeatText) # <<>>
    /\ Trim(text) = Trim(entry.lastHeartbeatText)
    /\ entry.lastHeartbeatSentAt # Undef
    /\ startedAt - entry.lastHeartbeatSentAt <= DUPLICATE_WINDOW_MS

\* lines 658-668
isDuplicateMain(shouldSkipMain, mediaUrls, text, entry, startedAt) ==
    LET prevHeartbeatText ==
            IF entry.lastHeartbeatText = NoText THEN <<>>
            ELSE entry.lastHeartbeatText
        prevHeartbeatAt == entry.lastHeartbeatSentAt
    IN  /\ ~shouldSkipMain
        /\ Len(mediaUrls) = 0
        /\ Trim(prevHeartbeatText) # <<>>
        /\ Trim(text) = Trim(prevHeartbeatText)
        /\ prevHeartbeatAt # Undef
        /\ startedAt - prevHeartbeatAt < DUPLICATE_WINDOW_MS

\* The payload list built with the main payload ahead of the reasoning
OutboundPayloadsMainFirst(reasoningPayloads, shouldSkipMain, text, mediaUrls) ==
    (IF shouldSkipMain THEN <<>>
     ELSE <<[payload |-> Payload(text, "", mediaUrls), main |-> TRUE]>>)
    \o reasoningPayloads

\* lines 734-744: the payloads handed to deliverOutboundPayloads
OutboundPayloads(reasoningPayloads, shouldSkipMain, text, mediaUrls) ==
    reasoningPayloads
    \o (IF shouldSkipMain THEN <<>>
        ELSE <<[payload |-> Payload(text, "", mediaUrls), main |-> TRUE]>>)

\* The ack-only return taken although reasoning payloads wait to be sent
AckOnlyIgnoringReasoning(shouldSkipMain, reasoningPayloads) == shouldSkipMain

\* line 639: `shouldSkipMain && reasoningPayloads.length === 0`
AckOnly(shouldSkipMain, reasoningPayloads) ==
    shouldSkipMain /\ reasoningPayloads = <<>>

\* The delivery attempted whatever the target resolved to
NoTargetNever(delivery) == FALSE

\* line 694: `delivery.channel === "none" || !delivery.to`
NoTarget(delivery) == delivery.channel = "none" \/ delivery.to = ""

\* The run without a target reported as a failure
NoTargetResultFailed == Result("failed", "no-target")

\* line 702: the result of a run that has no target
NoTargetResult == Result("ran", "")

\* lines 608-727: getReplyFromConfig returns replyResult; the run goes on to
\* its next await or returns.  The result is [run, store].
ProcessReply(r, st, replyResult) ==
    LET mainIdx == resolveHeartbeatReplyPayload(replyResult)
        includeReasoning == r.heartbeat.includeReasoning = "true"
        reasoningIdxs ==
            IF includeReasoning
            THEN FilterNot(resolveHeartbeatReasoningPayloads(replyResult), mainIdx)
            ELSE <<>>
        reasoningPayloads == PayloadsAt(replyResult, reasoningIdxs)
        replyPayload == replyResult[mainIdx]
        ackMaxChars == resolveHeartbeatAckMaxChars(r.heartbeat)
        normalized ==
            normalizeHeartbeatReply(replyPayload, cfg.responsePrefix, ackMaxChars)
        shouldSkipMain == normalized.shouldSkip /\ ~normalized.hasMedia
        mediaUrls == MainMediaUrls(replyPayload)
        restored == restoreHeartbeatUpdatedAt(st, r.sessionKey, r.previousUpdatedAt)
        r1 == [r EXCEPT !.reply = replyResult, !.mainIdx = mainIdx]
        r2 == [r1 EXCEPT !.shouldSkipMain = shouldSkipMain,
                         !.text = normalized.text, !.mediaUrls = mediaUrls]
        r3 == [r2 EXCEPT !.pending =
                 OutboundPayloads(reasoningPayloads, shouldSkipMain,
                                  normalized.text, mediaUrls)]
    IN  IF mainIdx = 0
        THEN [run |-> Finished(r1, "ok-empty", Result("ran", "")),
              store |-> restored]
        ELSE IF AckOnly(shouldSkipMain, reasoningPayloads)
        THEN [run |-> Finished(r2, "ok-token", Result("ran", "")),
              store |-> restored]
        ELSE IF isDuplicateMain(shouldSkipMain, mediaUrls, normalized.text,
                                r.entry, r.startedAt)
        THEN [run |-> Finished(r2, "duplicate", Result("ran", "")),
              store |-> restored]
        ELSE IF NoTarget(r.delivery)
        THEN [run |-> Finished(r2, "no-target", NoTargetResult),
              store |-> st]
        ELSE [run |-> [r3 EXCEPT !.pc = IF HasCheckReady(r.delivery.channel)
                                        THEN "ready" ELSE "deliver"],
              store |-> st]

AgentReplies(s, replyResult, touch) ==
    /\ run[s].pc = "agent"
    /\ LET st == IF touch THEN TouchSession(store, run[s].sessionKey) ELSE store
           next == ProcessReply(run[s], st, replyResult)
       IN  /\ run' = [run EXCEPT ![s] = next.run]
           /\ store' = next.store
    /\ UNCHANGED <<now, ticks, cfg, heartbeatsEnabled, queueSize,
                   heartbeatAgents, lastRunByAgent, handler, timer,
                   pendingWake, sweep, sends, agentCalls, sweepLog, calls,
                   transcripts, sessionLock, systemEvents, prompts>>

\* lines 705-727: the channel's readiness check returns
CheckReady(s, webEnabled, authExists, listenerActive) ==
    /\ run[s].pc = "ready"
    /\ LET readiness == whatsappCheckReady(webEnabled, authExists, listenerActive)
           seen == <<webEnabled, authExists, listenerActive>>
       IN  run' = [run EXCEPT ![s] =
                     IF readiness.ok
                     THEN [@ EXCEPT !.pc = "deliver", !.readiness = seen]
                     ELSE Finished([@ EXCEPT !.readiness = seen], "not-ready",
                                   Result("skipped", readiness.reason))]
    /\ UNCHANGED <<now, ticks, cfg, heartbeatsEnabled, queueSize, store,
                   heartbeatAgents, lastRunByAgent, handler, timer,
                   pendingWake, sweep, sends, agentCalls, sweepLog, calls,
                   transcripts, sessionLock, systemEvents, prompts>>

\* lines 762-771 onward: after the last-sent state is recorded, the reply is
\* appended to the delivery session, or the run returns
AfterRecord(r) ==
    IF ~r.shouldSkipMain /\ Trim(r.text) # <<>>
       /\ r.deliverySessionKey # NoKey /\ r.deliverySessionKey # r.sessionKey
    THEN [r EXCEPT !.pc = "append", !.pending = <<>>, !.saving = <<>>]
    ELSE [Finished(r, "sent", Result("ran", "")) EXCEPT !.saving = <<>>]

\* lines 748-760: deliverOutboundPayloads has resolved; the store is loaded,
\* the entry rewritten and the whole store handed to saveSessionStore
\* The reply text recorded as last sent before its normalization
AfterDeliverRecordsRawText(r, st) ==
    IF ~r.shouldSkipMain /\ Trim(r.text) # <<>> /\ st[r.sessionKey].present
    THEN [r EXCEPT !.pc = "save", !.pending = <<>>,
                   !.saving = [st EXCEPT
                      ![r.sessionKey].lastHeartbeatText = r.reply[r.mainIdx].text,
                      ![r.sessionKey].lastHeartbeatSentAt = r.startedAt]]
    ELSE AfterRecord(r)

AfterDeliver(r, st) ==
    IF ~r.shouldSkipMain /\ Trim(r.text) # <<>> /\ st[r.sessionKey].present
    THEN [r EXCEPT !.pc = "save", !.pending = <<>>,
                   !.saving = [st EXCEPT
                      ![r.sessionKey].lastHeartbeatText = r.text,
                      ![r.sessionKey].lastHeartbeatSentAt = r.startedAt]]
    ELSE AfterRecord(r)

\* lines 729-746: the dispatcher sends the next payload
SendPayload(s) ==
    /\ run[s].pc = "deliver"
    /\ run[s].pending # <<>>
    /\ sends' = [sends EXCEPT ![s] =
                   Append(@, [payload |-> Head(run[s].pending).payload,
                              main |-> Head(run[s].pending).main,
                              channel |-> run[s].delivery.channel,
                              to |-> run[s].delivery.to])]
    /\ run' = [run EXCEPT ![s] =
                 IF Len(@.pending) > 1 THEN [@ EXCEPT !.pending = Tail(@)]
                 ELSE AfterDeliver(@, store)]
    /\ UNCHANGED <<now, ticks, cfg, heartbeatsEnabled, queueSize, store,
                   heartbeatAgents, lastRunByAgent, handler, timer,
                   pendingWake, sweep, agentCalls, sweepLog, calls,
                   transcripts, sessionLock, systemEvents, prompts>>

\* A send throws after the last-sent state was recorded ahead of the send
SendThrowsAfterRecord(s) ==
    /\ run[s].pc = "deliver"
    /\ run[s].pending # <<>>
    /\ run' = [run EXCEPT ![s] =
                 Finished(@, "send-failed", Result("failed", "send error"))]
    /\ store' = IF store[run[s].sessionKey].present
                THEN [store EXCEPT
                        ![run[s].sessionKey].lastHeartbeatText = run[s].text,
                        ![run[s].sessionKey].lastHeartbeatSentAt = run[s].startedAt]
                ELSE store
    /\ UNCHANGED <<now, ticks, cfg, heartbeatsEnabled, queueSize,
                   heartbeatAgents, lastRunByAgent, handler, timer,
                   pendingWake, sweep, sends, agentCalls, sweepLog, calls,
                   transcripts, sessionLock, systemEvents, prompts>>

\* lines 729-746, 781-790: a send throws
SendThrows(s) ==
    /\ run[s].pc = "deliver"
    /\ run[s].pending # <<>>
    /\ run' = [run EXCEPT ![s] =
                 Finished(@, "send-failed", Result("failed", "send error"))]
    /\ UNCHANGED <<now, ticks, cfg, heartbeatsEnabled, queueSize, store,
                   heartbeatAgents, lastRunByAgent, handler, timer,
                   pendingWake, sweep, sends, agentCalls, sweepLog, calls,
                   transcripts, sessionLock, systemEvents, prompts>>

\* line 758: saveSessionStore writes the store it was handed
SaveStore(s) ==
    /\ run[s].pc = "save"
    /\ store' = run[s].saving
    /\ run' = [run EXCEPT ![s] = AfterRecord(@)]
    /\ UNCHANGED <<now, ticks, cfg, heartbeatsEnabled, queueSize,
                   heartbeatAgents, lastRunByAgent, handler, timer,
                   pendingWake, sweep, sends, agentCalls, sweepLog, calls,
                   transcripts, sessionLock, systemEvents, prompts>>

\* lines 763-780: appendHeartbeatToDeliverySession returns
AppendToDeliverySession(s) ==
    /\ run[s].pc = "append"
    /\ run' = [run EXCEPT ![s] = Finished(@, "sent", Result("ran", ""))]
    /\ UNCHANGED <<now, ticks, cfg, heartbeatsEnabled, queueSize, store,
                   heartbeatAgents, lastRunByAgent, handler, timer,
                   pendingWake, sweep, sends, agentCalls, sweepLog, calls,
                   transcripts, sessionLock, systemEvents, prompts>>

\* lines 410-487, 781-790: appendHeartbeatToDeliverySession throws (reading
\* or appending the transcript fails); the catch of the run returns "failed"
AppendThrows(s) ==
    /\ run[s].pc = "append"
    /\ run' = [run EXCEPT ![s] =
                 Finished(@, "append-failed", Result("failed", "append error"))]
    /\ UNCHANGED <<now, ticks, cfg, heartbeatsEnabled, queueSize, store,
                   heartbeatAgents, lastRunByAgent, handler, timer,
                   pendingWake, sweep, sends, agentCalls, sweepLog, calls,
                   transcripts, sessionLock, systemEvents, prompts>>

----------------------------------------------------------------------------
\* The delivery session with its store entry, transcript and write lock
\* followed: buildHeartbeatChannelContext (lines 366-408) and
\* appendHeartbeatToDeliverySession (lines 410-487) computed from them.

HEARTBEAT_CONTEXT_LIMIT == 10

\* truncateLine (lines 361-364): its default limit
LINE_LIMIT == 500

truncateLine(text) ==
    IF Len(text) <= LINE_LIMIT THEN text
    ELSE SubSeq(text, 1, LINE_LIMIT) \o <<"...">>

\* `messages.slice(-limit)`
LastOf(messages, limit) ==
    IF Len(messages) <= limit THEN messages
    ELSE SubSeq(messages, Len(messages) - limit + 1, Len(messages))

\* lines 393-404: the lines of the recent messages
RECURSIVE ContextLines(_)
ContextLines(recent) ==
    IF recent = <<>> THEN <<>>
    ELSE (IF Head(recent).role = "toolResult" THEN <<>>
          ELSE IF Trim(truncateLine(Head(recent).text)) = <<>> THEN <<>>
          ELSE <<[label |-> IF Head(recent).role = "assistant"
                            THEN "Assistant" ELSE "User",
                  text |-> Trim(truncateLine(Head(recent).text))]>>)
         \o ContextLines(Tail(recent))

\* buildHeartbeatChannelContext reading a missing transcript as one message
buildHeartbeatChannelContextMissingRead(st, files, sessionKey) ==
    IF ~st[sessionKey].present \/ files[sessionKey].sessionId = ""
    THEN [outcome |-> "none", lines |-> <<>>]
    ELSE IF ~files[sessionKey].exists \/ ~files[sessionKey].readable
    THEN [outcome |-> "throws", lines |-> <<>>]
    ELSE IF ContextLines(LastOf(files[sessionKey].messages,
                                HEARTBEAT_CONTEXT_LIMIT)) = <<>>
    THEN [outcome |-> "none", lines |-> <<>>]
    ELSE [outcome |-> "context",
          lines |-> ContextLines(LastOf(files[sessionKey].messages,
                                        HEARTBEAT_CONTEXT_LIMIT))]

\* buildHeartbeatChannelContext (lines 366-408): null ("none"), the context
\* block, or the throw of SessionManager.open on a file it cannot read
buildHeartbeatChannelContext(st, files, sessionKey) ==
    IF ~st[sessionKey].present \/ files[sessionKey].sessionId = ""
    THEN [outcome |-> "none", lines |-> <<>>]
    ELSE IF ~files[sessionKey].exists
    THEN [outcome |-> "none", lines |-> <<>>]
    ELSE IF ~files[sessionKey].readable
    THEN [outcome |-> "throws", lines |-> <<>>]
    ELSE IF files[sessionKey].messages = <<>>
    THEN [outcome |-> "none", lines |-> <<>>]
    ELSE IF ContextLines(LastOf(files[sessionKey].messages,
                                HEARTBEAT_CONTEXT_LIMIT)) = <<>>
    THEN [outcome |-> "none", lines |-> <<>>]
    ELSE [outcome |-> "context",
          lines |-> ContextLines(LastOf(files[sessionKey].messages,
                                        HEARTBEAT_CONTEXT_LIMIT))]

\* lines 590-598 with the delivery session followed
ReadChannelContext(s) ==
    /\ run[s].pc = "context"
    /\ BuildContext(s, buildHeartbeatChannelContext(
                           store, transcripts,
                           run[s].deliverySessionKey).outcome)

\* lines 416-432: the text is trimmed, the store loaded and the entry looked
\* up; the function returns, or awaits fs.stat
AppendBegins(s) ==
    /\ run[s].pc = "append"
    /\ run' = [run EXCEPT ![s] =
                 IF Trim(@.text) = <<>>
                 THEN Finished(@, "sent", Result("ran", ""))
                 ELSE IF ~store[@.deliverySessionKey].present
                         \/ transcripts[@.deliverySessionKey].sessionId = ""
                 THEN Finished(@, "sent", Result("ran", ""))
                 ELSE [@ EXCEPT !.pc = "append-stat", !.loaded = store,
                                !.appendNow = now]]
    /\ UNCHANGED <<now, ticks, cfg, heartbeatsEnabled, queueSize, store,
                   heartbeatAgents, lastRunByAgent, handler, timer,
                   pendingWake, sweep, sends, agentCalls, sweepLog, calls,
                   transcripts, sessionLock, systemEvents, prompts>>

\* lines 428-432: fs.stat settles; the function returns when the transcript
\* file does not exist, or awaits acquireSessionWriteLock
AppendStats(s) ==
    /\ run[s].pc = "append-stat"
    /\ run' = [run EXCEPT ![s] =
                 IF ~transcripts[@.deliverySessionKey].exists
                 THEN Finished(@, "sent", Result("ran", ""))
                 ELSE [@ EXCEPT !.pc = "append-lock"]]
    /\ UNCHANGED <<now, ticks, cfg, heartbeatsEnabled, queueSize, store,
                   heartbeatAgents, lastRunByAgent, handler, timer,
                   pendingWake, sweep, sends, agentCalls, sweepLog, calls,
                   transcripts, sessionLock, systemEvents, prompts>>

\* lines 441-447: the last assistant message of the transcript
HasAssistant(messages) ==
    \E i \in 1..Len(messages) : messages[i].role = "assistant"

\* lines 437-479: the body of the try block: "threw" when SessionManager.open
\* or appendMessage throws, "no-assistant" at the return of line 448
TryAppend(file, appendThrows) ==
    IF ~file.readable THEN "threw"
    ELSE IF ~HasAssistant(file.messages) THEN "no-assistant"
    ELSE IF appendThrows THEN "threw"
    ELSE "appended"

\* lines 434-479: the lock is acquired and the try block runs up to the
\* await of the release in its finally block
AppendLocks(s, appendThrows) ==
    /\ run[s].pc = "append-lock"
    /\ sessionLock[run[s].deliverySessionKey] = FreeLock
    /\ LET key == run[s].deliverySessionKey
           outcome == TryAppend(transcripts[key], appendThrows)
       IN  /\ sessionLock' = [sessionLock EXCEPT ![key] = HeldBy(s)]
           /\ transcripts' =
                 IF outcome = "appended"
                 THEN [transcripts EXCEPT ![key].messages =
                          Append(@, Message("assistant", Trim(run[s].text)))]
                 ELSE transcripts
           /\ run' = [run EXCEPT ![s].pc = "append-release",
                                 ![s].appended = outcome]
    /\ UNCHANGED <<now, ticks, cfg, heartbeatsEnabled, queueSize, store,
                   heartbeatAgents, lastRunByAgent, handler, timer,
                   pendingWake, sweep, sends, agentCalls, sweepLog, calls,
                   systemEvents, prompts>>

\* acquireSessionWriteLock gives up waiting for a lock that another process
\* or another run holds, and throws; the catch of the run returns "failed"
\* (lines 781-790)
AppendLockTimesOut(s) ==
    /\ run[s].pc = "append-lock"
    /\ run' = [run EXCEPT ![s] =
                 Finished(@, "append-failed", Result("failed", "append error"))]
    /\ UNCHANGED <<now, ticks, cfg, heartbeatsEnabled, queueSize, store,
                   heartbeatAgents, lastRunByAgent, handler, timer,
                   pendingWake, sweep, sends, agentCalls, sweepLog, calls,
                   transcripts, sessionLock, systemEvents, prompts>>

\* The release made only on the way out of a completed append
ReleasedOnSuccessOnly(lock, key, outcome) ==
    IF outcome = "appended" THEN [lock EXCEPT ![key] = FreeLock] ELSE lock

\* lines 480-482: `finally { await sessionLock.release(); }`
Released(lock, key, outcome) ==
    [lock EXCEPT ![key] = FreeLock]

\* The updatedAt of the entry left as it was loaded
TouchedEntryKeepsTime(st, key, nowMs) ==
    st

\* lines 484-485: `store[sessionKey] = { ...entry, updatedAt: now }` on the
\* store loaded at line 421
TouchedEntry(st, key, nowMs) ==
    [st EXCEPT ![key].updatedAt = nowMs]

\* lines 480-486: the release settles; the throw of the try block goes on
\* to the catch of the run, the return of line 448 returns, and after an
\* append the entry is rewritten and the store handed to saveSessionStore
AppendReleases(s) ==
    /\ run[s].pc = "append-release"
    /\ sessionLock' = Released(sessionLock, run[s].deliverySessionKey,
                               run[s].appended)
    /\ run' = [run EXCEPT ![s] =
                 IF @.appended = "threw"
                 THEN Finished([@ EXCEPT !.loaded = <<>>], "append-failed",
                               Result("failed", "append error"))
                 ELSE IF @.appended = "no-assistant"
                 THEN Finished([@ EXCEPT !.loaded = <<>>], "sent",
                               Result("ran", ""))
                 ELSE [@ EXCEPT !.pc = "append-save",
                                !.saving = TouchedEntry(
                                               run[s].loaded,
                                               run[s].deliverySessionKey,
                                               run[s].appendNow)]]
    /\ UNCHANGED <<now, ticks, cfg, heartbeatsEnabled, queueSize, store,
                   heartbeatAgents, lastRunByAgent, handler, timer,
                   pendingWake, sweep, sends, agentCalls, sweepLog, calls,
                   transcripts, systemEvents, prompts>>

\* line 486: saveSessionStore writes the store it was handed
AppendSaves(s) ==
    /\ run[s].pc = "append-save"
    /\ store' = run[s].saving
    /\ run' = [run EXCEPT ![s] =
                 [Finished(@, "sent", Result("ran", "")) EXCEPT !.saving = <<>>,
                                                                !.loaded = <<>>]]
    /\ UNCHANGED <<now, ticks, cfg, heartbeatsEnabled, queueSize,
                   heartbeatAgents, lastRunByAgent, handler, timer,
                   pendingWake, sweep, sends, agentCalls, sweepLog, calls,
                   transcripts, sessionLock, systemEvents, prompts>>

\* A turn started by a message of a user in the session: its bookkeeping
\* writes the route and the time into the entry with updateSessionStore
UserRoute == [lastChannel |-> "whatsapp", lastTo |-> "+1999"]

UserTurn(sessionKey) ==
    /\ store[sessionKey].present
    /\ store' = [store EXCEPT ![sessionKey].lastChannel = UserRoute.lastChannel,
                              ![sessionKey].lastTo = UserRoute.lastTo,
                              ![sessionKey].updatedAt = now]
    /\ store' # store
    /\ UNCHANGED <<now, ticks, cfg, heartbeatsEnabled, queueSize,
                   heartbeatAgents, lastRunByAgent, handler, timer,
                   pendingWake, sweep, run, sends, agentCalls, sweepLog,
                   calls, transcripts, sessionLock, systemEvents, prompts>>

----------------------------------------------------------------------------
\* The environment.

\* Date.now() advances
Tick(step) ==
    /\ ticks < MaxTicks
    /\ ticks' = ticks + 1
    /\ now' = now + step
    /\ UNCHANGED <<cfg, heartbeatsEnabled, queueSize, store, heartbeatAgents,
                   lastRunByAgent, handler, timer, pendingWake, sweep, run,
                   sends, agentCalls, sweepLog, calls,
                   transcripts, sessionLock, systemEvents, prompts>>

\* setHeartbeatsEnabled (lines 67-69)
setHeartbeatsEnabled(enabled) ==
    /\ heartbeatsEnabled # enabled
    /\ heartbeatsEnabled' = enabled
    /\ UNCHANGED <<now, ticks, cfg, queueSize, store, heartbeatAgents,
                   lastRunByAgent, handler, timer, pendingWake, sweep, run,
                   sends, agentCalls, sweepLog, calls,
                   transcripts, sessionLock, systemEvents, prompts>>

\* A user-triggered turn enters or leaves the main lane of the command queue
QueueChange(n) ==
    /\ queueSize # n
    /\ queueSize' = n
    /\ UNCHANGED <<now, ticks, cfg, heartbeatsEnabled, store, heartbeatAgents,
                   lastRunByAgent, handler, timer, pendingWake, sweep, run,
                   sends, agentCalls, sweepLog, calls,
                   transcripts, sessionLock, systemEvents, prompts>>

----------------------------------------------------------------------------
\* Direct calls of runHeartbeatOnce, one at a time (as the tests make them).

IdleSweep ==
    [pc |-> "idle", reason |-> "", now |-> Undef, idx |-> 0, ran |-> FALSE,
     result |-> NoResult]

SlotFree(s) == sweep[s].pc = "idle" /\ run[s].pc = "idle"

\* No run is in flight.  In the run-level specification the clock, the
\* switch and the queue change between runs: a run reads the switch and the
\* queue only when it is called.
Quiet == \A t \in Slots : SlotFree(t)

\* runHeartbeatOnce({cfg, agentId}): heartbeat is resolveHeartbeatConfig's
CallRunHeartbeatOnce(s, agentId) ==
    /\ Quiet
    /\ s = 1
    /\ calls < MaxCalls
    /\ calls' = calls + 1
    /\ StartRun(s, agentId, resolveHeartbeatConfig(cfg, agentId))
    /\ UNCHANGED <<now, ticks, cfg, heartbeatsEnabled, queueSize, store,
                   heartbeatAgents, lastRunByAgent, handler, timer,
                   pendingWake, sweep, sweepLog,
                   transcripts, sessionLock, systemEvents, prompts>>

\* The caller receives the promise's outcome
RunReturns(s) ==
    /\ run[s].pc = "done"
    /\ sweep[s].pc = "idle"
    /\ run' = [run EXCEPT ![s] = IdleRun]
    /\ sends' = [sends EXCEPT ![s] = <<>>]
    /\ agentCalls' = [agentCalls EXCEPT ![s] = 0]
    /\ UNCHANGED <<now, ticks, cfg, heartbeatsEnabled, queueSize, store,
                   heartbeatAgents, lastRunByAgent, handler, timer,
                   pendingWake, sweep, sweepLog, calls,
                   transcripts, sessionLock, systemEvents, prompts>>

----------------------------------------------------------------------------
\* startHeartbeatRunner (lines 793-872): the wake handler `run` sweeps over
\* the heartbeat agents.  sweep[s].pc is "await" while the handler awaits
\* runHeartbeatOnce (line 832), "done" once it has returned or thrown.

\* The elapsed-time check passing over an agent whose interval has just elapsed
AgentIsDueStrict(agent, reason, sweepNow, lastRuns) ==
    LET agentIntervalMs == resolveHeartbeatIntervalMs(cfg, EveryUnset, agent.heartbeat)
        lastRun == lastRuns[agent.agentId]
    IN  /\ agentIntervalMs # Undef
        /\ ~(reason = "interval" /\ lastRun # Undef
             /\ sweepNow - lastRun <= agentIntervalMs)

\* The elapsed-time check applied whatever the reason of the sweep
AgentIsDueAnyReason(agent, reason, sweepNow, lastRuns) ==
    LET agentIntervalMs == resolveHeartbeatIntervalMs(cfg, EveryUnset, agent.heartbeat)
        lastRun == lastRuns[agent.agentId]
    IN  /\ agentIntervalMs # Undef
        /\ ~(lastRun # Undef /\ sweepNow - lastRun < agentIntervalMs)

\* lines 825-830: the agent is not passed over by a `continue`
AgentIsDue(agent, reason, sweepNow, lastRuns) ==
    LET agentIntervalMs == resolveHeartbeatIntervalMs(cfg, EveryUnset, agent.heartbeat)
        lastRun == lastRuns[agent.agentId]
    IN  /\ agentIntervalMs # Undef
        /\ ~(reason = "interval" /\ lastRun # Undef
             /\ sweepNow - lastRun < agentIntervalMs)

\* line 824: the index of the next agent of the loop that is run, from
\* index `from` on; 0 when the loop ends
NextAgent(from, reason, sweepNow, lastRuns) ==
    LET due == {j \in from..Len(heartbeatAgents) :
                  AgentIsDue(heartbeatAgents[j], reason, sweepNow, lastRuns)}
    IN  IF due = {} THEN 0 ELSE CHOOSE j \in due : \A k \in due : j <= k

\* lines 848-849
SweepResult(sw) ==
    IF sw.ran THEN Result("ran", "")
    ELSE Result("skipped", IF sw.reason = "interval" THEN "not-due" ELSE "disabled")

\* lines 824-849: the loop goes on from index `from`
ContinueSweep(s, sw, from, lastRuns) ==
    LET j == NextAgent(from, sw.reason, sw.now, lastRuns)
    IN  IF j = 0
        THEN /\ sweep' = [sweep EXCEPT ![s] =
                            [sw EXCEPT !.pc = "done",
                                       !.idx = Len(heartbeatAgents) + 1,
                                       !.result = SweepResult(sw)]]
             /\ UNCHANGED <<run, sends, agentCalls>>
        ELSE /\ sweep' = [sweep EXCEPT ![s] = [sw EXCEPT !.pc = "await", !.idx = j]]
             /\ StartRun(s, heartbeatAgents[j].agentId, heartbeatAgents[j].heartbeat)

\* requestHeartbeatNow (heartbeat-wake).  The interval timer of lines
\* 855-858 requests a wake with reason "interval".
IntervalTimerFires ==
    /\ timer
    /\ pendingWake' = "interval"
    /\ UNCHANGED <<now, ticks, cfg, heartbeatsEnabled, queueSize, store,
                   heartbeatAgents, lastRunByAgent, handler, timer, sweep,
                   run, sends, agentCalls, sweepLog, calls,
                   transcripts, sessionLock, systemEvents, prompts>>

\* The wake handler left registered by the cleanup
HandlerKeptAfterCleanup == handler

\* line 864: setHeartbeatWakeHandler(null)
HandlerAfterCleanup == FALSE

\* lines 865-866: clearInterval(timer); timer = null
TimerAfterCleanup == FALSE

\* lines 863-871: cleanup, called by stop() and by the abort signal; runs
\* and sweeps in flight are not touched
Cleanup ==
    /\ handler' = HandlerAfterCleanup
    /\ timer' = TimerAfterCleanup
    /\ UNCHANGED <<now, ticks, cfg, heartbeatsEnabled, queueSize, store,
                   heartbeatAgents, lastRunByAgent, pendingWake, sweep,
                   run, sends, agentCalls, sweepLog, calls,
                   transcripts, sessionLock, systemEvents, prompts>>

\* A manual wake or an external event requests a wake
WakeRequested ==
    /\ pendingWake' = "wake"
    /\ UNCHANGED <<now, ticks, cfg, heartbeatsEnabled, queueSize, store,
                   heartbeatAgents, lastRunByAgent, handler, timer, sweep,
                   run, sends, agentCalls, sweepLog, calls,
                   transcripts, sessionLock, systemEvents, prompts>>

\* heartbeat-wake: the registered handler is invoked for a pending wake only
\* when no earlier invocation of it is still pending (Section 5 of the
\* specification: sweeps are sequential)
WakeMayRun == \A t \in Slots : sweep[t].pc = "idle"

\* The handler entering its loop whatever the global switch says
HandlerIgnoresSwitch == FALSE

\* lines 811-813: `!heartbeatsEnabled`
HandlerDisabled == ~heartbeatsEnabled

\* lines 810-832: the handler is invoked with the pending reason
DispatchWake(s) ==
    /\ pendingWake # "none"
    /\ handler
    /\ WakeMayRun
    /\ SlotFree(s)
    /\ \A t \in Slots : SlotFree(t) => s <= t
    /\ pendingWake' = "none"
    /\ sweepLog' = [sweepLog EXCEPT ![s] = <<>>]
    /\ IF HandlerDisabled \/ Len(heartbeatAgents) = 0
       THEN /\ sweep' = [sweep EXCEPT ![s] =
                           [IdleSweep EXCEPT !.pc = "done",
                                             !.reason = pendingWake,
                                             !.now = now,
                                             !.result = Result("skipped", "disabled")]]
            /\ UNCHANGED <<run, sends, agentCalls>>
       ELSE ContinueSweep(s, [IdleSweep EXCEPT !.reason = pendingWake, !.now = now],
                          1, lastRunByAgent)
    /\ UNCHANGED <<now, ticks, cfg, heartbeatsEnabled, queueSize, store,
                   heartbeatAgents, lastRunByAgent, handler, timer, calls,
                   transcripts, sessionLock, systemEvents, prompts>>

\* The backpressure test looking for another reason
IsBackpressureWrongReason(res) ==
    res.status = "skipped" /\ res.reason = "queue-busy"

\* line 839: the run reported backpressure
IsBackpressure(res) ==
    res.status = "skipped" /\ res.reason = "requests-in-flight"

\* The last-run time recorded only for a run that ran
RecordsLastRunOnlyWhenRan(res) == res.status = "ran"

\* line 842: the result for which the sweep records the agent's last-run time
RecordsLastRun(res) == res.status # "skipped" \/ res.reason # "disabled"

\* The handler going on without awaiting the run
RunNotAwaited(s) == run[s].pc # "idle"

\* line 832: `await runHeartbeatOnce(...)` has settled
RunSettled(s) == run[s].pc = "done"

\* lines 832-846: the awaited run settles and the loop goes on
SweepResumes(s) ==
    /\ sweep[s].pc = "await"
    /\ RunSettled(s)
    /\ LET res == run[s].result
           sw == sweep[s]
           agentId == heartbeatAgents[sw.idx].agentId
           lastRuns ==
               IF RecordsLastRun(res)
               THEN [lastRunByAgent EXCEPT ![agentId] = sw.now]
               ELSE lastRunByAgent
       IN  /\ sweepLog' = [sweepLog EXCEPT ![s] =
                             Append(@, [agentId |-> agentId, result |-> res,
                                        lastRun |-> lastRunByAgent[agentId]])]
           /\ IF res.status = "threw"
              THEN /\ sweep' = [sweep EXCEPT ![s] =
                                  [sw EXCEPT !.pc = "done", !.result = res]]
                   /\ UNCHANGED <<lastRunByAgent, run, sends, agentCalls>>
              ELSE IF IsBackpressure(res)
              THEN /\ sweep' = [sweep EXCEPT ![s] =
                                  [sw EXCEPT !.pc = "done", !.result = res]]
                   /\ UNCHANGED <<lastRunByAgent, run, sends, agentCalls>>
              ELSE /\ lastRunByAgent' = lastRuns
                   /\ ContinueSweep(s, [sw EXCEPT !.ran = (@ \/ res.status = "ran")],
                                    sw.idx + 1, lastRuns)
    /\ UNCHANGED <<now, ticks, cfg, heartbeatsEnabled, queueSize, store,
                   heartbeatAgents, handler, timer, pendingWake, calls,
                   transcripts, sessionLock, systemEvents, prompts>>

\* heartbeat-wake: the handler's promise has settled
SweepReturns(s) ==
    /\ sweep[s].pc = "done"
    /\ sweep' = [sweep EXCEPT ![s] = IdleSweep]
    /\ sweepLog' = [sweepLog EXCEPT ![s] = <<>>]
    /\ IF run[s].pc = "done"
       THEN /\ run' = [run EXCEPT ![s] = IdleRun]
            /\ sends' = [sends EXCEPT ![s] = <<>>]
            /\ agentCalls' = [agentCalls EXCEPT ![s] = 0]
       ELSE UNCHANGED <<run, sends, agentCalls>>
    /\ UNCHANGED <<now, ticks, cfg, heartbeatsEnabled, queueSize, store,
                   heartbeatAgents, lastRunByAgent, handler, timer,
                   pendingWake, calls,
                   transcripts, sessionLock, systemEvents, prompts>>

----------------------------------------------------------------------------
\* System events (infra/system-events) and the prompt build that drains them
\* (auto-reply/reply/session-updates.ts).  An event is its text, the time it
\* was queued at and its rank among the events queued in the behaviour.

\* Events queued in one behaviour.
MaxEvents == 2

\* Prompts built in one behaviour.
MaxPrompts == 2

\* The queue keeps up to 20 events, older ones drop
MAX_EVENTS == 20

RECURSIVE SumLen(_)
SumLen(seqs) ==
    IF seqs = <<>> THEN 0 ELSE Len(Head(seqs)) + SumLen(Tail(seqs))

\* The events queued so far: those waiting and those drained
EventsSoFar ==
    SumLen([i \in 1..Len(prompts) |-> prompts[i].drained])
    + Len(systemEvents[MainKey("main")]) + Len(systemEvents[MainKey("ops")])

\* enqueueSystemEvent: a blank text and a repetition of the last queued
\* text are ignored; the queue is cut to its newest MAX_EVENTS events
enqueueSystemEvent(queue, text, ts, id) ==
    LET Push(cleaned) ==
            IF cleaned = <<>> THEN queue
            ELSE IF queue # <<>> /\ queue[Len(queue)].text = cleaned THEN queue
            ELSE IF Len(queue) >= MAX_EVENTS
            THEN Tail(queue) \o <<[text |-> cleaned, ts |-> ts, id |-> id]>>
            ELSE queue \o <<[text |-> cleaned, ts |-> ts, id |-> id]>>
    IN  Push(Trim(text))

\* `clawdbot wake --text <text> --mode next-heartbeat`: the text is queued
\* for the session and no heartbeat is requested
EnqueueSystemEvent(sessionKey, text) ==
    /\ EventsSoFar < MaxEvents
    /\ systemEvents' =
          [systemEvents EXCEPT ![sessionKey] =
              enqueueSystemEvent(@, text, now, EventsSoFar + 1)]
    /\ systemEvents' # systemEvents
    /\ UNCHANGED <<now, ticks, cfg, heartbeatsEnabled, queueSize, store,
                   heartbeatAgents, lastRunByAgent, handler, timer,
                   pendingWake, sweep, run, sends, agentCalls, sweepLog,
                   calls, transcripts, sessionLock, prompts>>

\* A text with " · last input ..." cut off (line 25)
WithoutLastInput(t) ==
    SelectSeq(t, LAMBDA a : a # "last input")

\* compactSystemEvent keeping every line that is not blank
compactSystemEventKeepsAll(line) ==
    Trim(line)

\* compactSystemEvent (lines 18-28): <<>> stands for null
compactSystemEvent(line) ==
    LET Compact(trimmed) ==
            IF trimmed = <<>> THEN <<>>
            ELSE IF \E i \in 1..Len(trimmed) : trimmed[i] = "reason periodic"
            THEN <<>>
            ELSE IF Head(trimmed) \in {"heartbeat", "Heartbeat:"} THEN <<>>
            ELSE IF Head(trimmed) = "Node:" THEN Trim(WithoutLastInput(trimmed))
            ELSE trimmed
    IN  Compact(Trim(line))

\* lines 42-52: the lines of the queued events, without those compacted away
RECURSIVE EventLines(_)
EventLines(queued) ==
    IF queued = <<>> THEN <<>>
    ELSE (IF compactSystemEvent(Head(queued).text) = <<>> THEN <<>>
          ELSE <<[ts |-> Head(queued).ts,
                  text |-> compactSystemEvent(Head(queued).text),
                  id |-> Head(queued).id]>>)
         \o EventLines(Tail(queued))

\* buildChannelSummary: the summary of the linked channels, one line here
ChannelSummary == <<[ts |-> Undef, text |-> <<"summary">>, id |-> 0]>>

\* lines 58-60: the block of "System:" lines and the blank line in front of
\* the body; "System:" stands in front of each line, "nl" for the blank line
RECURSIVE SystemBlock(_)
SystemBlock(systemLines) ==
    IF systemLines = <<>> THEN <<"nl">>
    ELSE <<"System:">> \o Head(systemLines).text \o <<"nl">>
         \o SystemBlock(Tail(systemLines))

\* The body the system lines are put in front of
PrefixedBodyBase == <<"body">>

\* prependSystemEvents (lines 11-61): drainSystemEventEntries empties the
\* queue of the session; the prompt is logged with the events it drained
prependSystemEvents(sessionKey, isMainSession, isNewSession) ==
    /\ Len(prompts) < MaxPrompts
    /\ LET queued == systemEvents[sessionKey]
           Built(systemLines) ==
               [sessionKey |-> sessionKey, drained |-> queued,
                lines |-> systemLines,
                prompt |-> IF systemLines = <<>> THEN PrefixedBodyBase
                           ELSE SystemBlock(systemLines) \o PrefixedBodyBase]
       IN  prompts' = Append(prompts,
                             Built(IF isMainSession /\ isNewSession
                                   THEN ChannelSummary \o EventLines(queued)
                                   ELSE EventLines(queued)))
    /\ systemEvents' = [systemEvents EXCEPT ![sessionKey] = <<>>]
    /\ UNCHANGED <<now, ticks, cfg, heartbeatsEnabled, queueSize, store,
                   heartbeatAgents, lastRunByAgent, handler, timer,
                   pendingWake, sweep, run, sends, agentCalls, sweepLog,
                   calls, transcripts, sessionLock>>

----------------------------------------------------------------------------
\* Inputs of the run-level specification.

HALF_DAY == 12 * HOUR

RunHeartbeats ==
    { Heartbeat(Every(5, "m"), "whatsapp", "+1555", Unset, "unset"),
      Heartbeat(Every(5, "m"), "whatsapp", "+1555", 0, "true"),
      Heartbeat(EveryUnset, "last", "", 0 - 5, "true"),
      Heartbeat(Every(1, "h"), "none", "", 1, "false"),
      Heartbeat(Every(5, "m"), "whatsapp", "120363@g.us", Unset, "unset"),
      Heartbeat(Every(5, "m"), "telegram", "123", 1, "true"),
      Heartbeat(Every(0, "m"), "whatsapp", "+1555", Unset, "unset") }

RunEntries ==
    { NoEntry,
      Entry(0, "whatsapp", "+1555", NoText, Undef),
      Entry(0, "webchat", "ui", NoText, Undef),
      Entry(0, "whatsapp", "+1555", <<"a">>, 0) }

RunConfig(heartbeat, responsePrefix) ==
    [list |-> <<[id |-> "main", default |-> TRUE, heartbeat |-> NoHeartbeat]>>,
     defaults |-> heartbeat, scope |-> "per-sender",
     responsePrefix |-> responsePrefix, allowFrom |-> <<>>]

\* A config whose session scope is global, and one whose agents list gives
\* "ops" a heartbeat block and "main" none
GlobalScopeConfig ==
    [RunConfig(Heartbeat(Every(5, "m"), "whatsapp", "120363@g.us", Unset, "unset"),
               <<>>) EXCEPT !.scope = "global"]

ExplicitAgentsConfig ==
    [list |-> <<[id |-> "main", default |-> TRUE, heartbeat |-> NoHeartbeat],
                [id |-> "ops", default |-> FALSE,
                 heartbeat |-> [Heartbeat(EveryUnset, "telegram", "123",
                                          Unset, "unset")
                                   EXCEPT !.prompt = <<"sp", "a", "sp">>]]>>,
     defaults |-> [Heartbeat(Every(1, "h"), "whatsapp", "+1555", 1, "true")
                      EXCEPT !.prompt = <<"b">>],
     scope |-> "per-sender", responsePrefix |-> <<>>, allowFrom |-> <<>>]

RunConfigs ==
    {RunConfig(h, <<>>) : h \in RunHeartbeats}
    \cup {RunConfig(Heartbeat(Every(5, "m"), "whatsapp", "+1555", 1, "true"),
                    <<"b">>)}
    \cup {GlobalScopeConfig, ExplicitAgentsConfig}

Replies ==
    { <<>>,
      <<TextOnly(<<"OK">>)>>,
      <<TextOnly(<<"OK", "sp", "a">>)>>,
      <<TextOnly(<<"a", "sp", "OK">>)>>,
      <<TextOnly(<<"OK", "sp", "X">>)>>,
      <<TextOnly(<<"a", "OK", "a">>)>>,
      <<TextOnly(<<"a">>)>>,
      <<TextOnly(<<"sp", "a">>)>>,
      <<Payload(<<"OK">>, "u1", NoList)>>,
      <<Payload(<<"a">>, "", <<"u1">>)>>,
      <<Payload(NoText, "u1", NoList)>>,
      <<TextOnly(<<"R", "a">>), TextOnly(<<"OK">>)>>,
      <<TextOnly(<<"R", "a">>), TextOnly(<<"a">>)>>,
      <<TextOnly(<<"R", "a">>), TextOnly(<<"R", "b">>), TextOnly(<<"a">>)>>,
      <<TextOnly(<<"b">>), TextOnly(<<"a">>)>>,
      <<TextOnly(<<"a">>), TextOnly(<<>>)>>,
      <<TextOnly(<<"a">>), TextOnly(<<"R", "a">>)>> }

ContextOutcomes == {"context", "none", "throws"}

Init ==
    /\ now = 0
    /\ ticks = 0
    /\ cfg \in RunConfigs
    /\ heartbeatsEnabled = TRUE
    /\ queueSize = 0
    /\ \E e \in RunEntries :
          /\ cfg \in {GlobalScopeConfig, ExplicitAgentsConfig} => e = NoEntry
          /\ store = [k \in SessionKeys |->
                        IF k = MainKey("main") THEN e ELSE NoEntry]
    /\ heartbeatAgents = resolveHeartbeatAgents(cfg)
    /\ lastRunByAgent = [a \in AgentIds |-> Undef]
    /\ handler = FALSE
    /\ timer = FALSE
    /\ pendingWake = "none"
    /\ sweep = [s \in Slots |-> IdleSweep]
    /\ run = [s \in Slots |-> IdleRun]
    /\ sends = [s \in Slots |-> <<>>]
    /\ agentCalls = [s \in Slots |-> 0]
    /\ sweepLog = [s \in Slots |-> <<>>]
    /\ calls = 0
    /\ transcripts = [k \in DeliveryKeys |-> NoTranscript]
    /\ sessionLock = [k \in DeliveryKeys |-> FreeLock]
    /\ systemEvents = [k \in SessionKeys |-> <<>>]
    /\ prompts = <<>>

Next ==
    \/ \E s \in Slots, a \in {"main", "ops"} : CallRunHeartbeatOnce(s, a)
    \/ \E s \in Slots, o \in ContextOutcomes : BuildContext(s, o)
    \/ \E s \in Slots, r \in Replies, touch \in BOOLEAN : AgentReplies(s, r, touch)
    \/ \E s \in Slots : AgentThrows(s)
    \/ \E s \in Slots, w \in BOOLEAN, a \in BOOLEAN, l \in BOOLEAN :
          CheckReady(s, w, a, l)
    \/ \E s \in Slots : SendPayload(s)
    \/ \E s \in Slots : SendThrows(s)
    \/ \E s \in Slots : SaveStore(s)
    \/ \E s \in Slots : AppendToDeliverySession(s)
    \/ \E s \in Slots : AppendThrows(s)
    \/ \E s \in Slots : RunReturns(s)
    \/ Quiet /\ Tick(HALF_DAY)
    \/ \E b \in BOOLEAN : Quiet /\ setHeartbeatsEnabled(b)
    \/ \E n \in {0, 1} : Quiet /\ QueueChange(n)

Spec == Init /\ [][Next]_vars

----------------------------------------------------------------------------
\* The scheduler-level specification: startHeartbeatRunner has been called
\* with three agents: "ops" every hour to a WhatsApp group, "off" with its
\* heartbeat switched off ("0m"), "main" at the default interval to Telegram.

SchedConfig ==
    [list |-> <<[id |-> "ops", default |-> FALSE,
                 heartbeat |-> Heartbeat(Every(1, "h"), "whatsapp",
                                         "120363@g.us", Unset, "unset")],
                [id |-> "off", default |-> FALSE,
                 heartbeat |-> Heartbeat(Every(0, "m"), "none", "", Unset, "unset")],
                [id |-> "main", default |-> TRUE,
                 heartbeat |-> Heartbeat(EveryUnset, "telegram", "123",
                                         Unset, "unset")]>>,
     defaults |-> NoHeartbeat, scope |-> "per-sender", responsePrefix |-> <<>>,
     allowFrom |-> <<>>]

\* No run is suspended at an await.  The clock, the switch and the queue are
\* read when a sweep begins and when a run is called, so a change of them
\* while a run is suspended is the same change made when the run has settled.
NoRunSuspended == \A t \in Slots : run[t].pc \in {"idle", "done"}

SchedReplies == { <<TextOnly(<<"OK">>)>>, <<TextOnly(<<"a">>)>> }

HALF_HOUR == 30 * MINUTE

SchedInit ==
    /\ now = 0
    /\ ticks = 0
    /\ cfg = SchedConfig
    /\ heartbeatsEnabled = TRUE
    /\ queueSize = 0
    /\ store = [k \in SessionKeys |->
                  IF k = GlobalKey THEN NoEntry
                  ELSE Entry(0, "", "", NoText, Undef)]
    /\ heartbeatAgents = resolveHeartbeatAgents(cfg)
    /\ lastRunByAgent = [a \in AgentIds |-> Undef]
    /\ handler = TRUE
    /\ timer = TRUE
    /\ pendingWake = "none"
    /\ sweep = [s \in Slots |-> IdleSweep]
    /\ run = [s \in Slots |-> IdleRun]
    /\ sends = [s \in Slots |-> <<>>]
    /\ agentCalls = [s \in Slots |-> 0]
    /\ sweepLog = [s \in Slots |-> <<>>]
    /\ calls = 0
    /\ transcripts = [k \in DeliveryKeys |-> NoTranscript]
    /\ sessionLock = [k \in DeliveryKeys |-> FreeLock]
    /\ systemEvents = [k \in SessionKeys |-> <<>>]
    /\ prompts = <<>>

SchedNext ==
    \/ IntervalTimerFires
    \/ WakeRequested
    \/ \E s \in Slots : DispatchWake(s)
    \/ \E s \in Slots : SweepResumes(s)
    \/ \E s \in Slots : SweepReturns(s)
    \/ \E s \in Slots, o \in ContextOutcomes : BuildContext(s, o)
    \/ \E s \in Slots, r \in SchedReplies : AgentReplies(s, r, FALSE)
    \/ \E s \in Slots : AgentThrows(s)
    \/ \E s \in Slots, w \in BOOLEAN, a \in BOOLEAN, l \in BOOLEAN :
          CheckReady(s, w, a, l)
    \/ \E s \in Slots : SendPayload(s)
    \/ \E s \in Slots : SendThrows(s)
    \/ \E s \in Slots : SaveStore(s)
    \/ \E s \in Slots : AppendToDeliverySession(s)
    \/ \E s \in Slots : AppendThrows(s)
    \/ NoRunSuspended /\ Tick(HALF_HOUR)
    \/ \E b \in BOOLEAN : NoRunSuspended /\ setHeartbeatsEnabled(b)
    \/ \E n \in {0, 1} : NoRunSuspended /\ QueueChange(n)

SchedSpec == SchedInit /\ [][SchedNext]_vars

----------------------------------------------------------------------------
\* The runner with its cleanup: the scheduler-level specification in which
\* stop() or the abort signal may come at any moment, before, between and
\* during sweeps and runs.  The global switch stays on and the queue empty.

StopNext ==
    \/ Cleanup
    \/ IntervalTimerFires
    \/ WakeRequested
    \/ \E s \in Slots : DispatchWake(s)
    \/ \E s \in Slots : SweepResumes(s)
    \/ \E s \in Slots : SweepReturns(s)
    \/ \E s \in Slots, o \in ContextOutcomes : BuildContext(s, o)
    \/ \E s \in Slots, r \in SchedReplies : AgentReplies(s, r, FALSE)
    \/ \E s \in Slots : AgentThrows(s)
    \/ \E s \in Slots, l \in BOOLEAN : CheckReady(s, TRUE, TRUE, l)
    \/ \E s \in Slots : SendPayload(s)
    \/ \E s \in Slots : SendThrows(s)
    \/ \E s \in Slots : SaveStore(s)
    \/ \E s \in Slots : AppendToDeliverySession(s)
    \/ \E s \in Slots : AppendThrows(s)
    \/ NoRunSuspended /\ Tick(HALF_HOUR)

StopSpec == SchedInit /\ [][StopNext]_vars

----------------------------------------------------------------------------
\* Runs under the allow-lists of channels.whatsapp.allowFrom.

AllowLists ==
    { <<>>, <<"*">>, <<"+1555", "+1666">>, <<"+1555">>, <<"*", "+1555">>,
      <<"whatsapp:+1222", "+1555">>, <<"junk", " ", "+1666">> }

\* The recipients configured as heartbeat.to
TargetTos ==
    {"+1999", "+1555", " +1222", "whatsapp:+1222", "120363@g.us",
     "whatsapp:120363@G.US", "junk"}

TargetHeartbeats ==
    {Heartbeat(Every(5, "m"), "whatsapp", to, Unset, "unset") : to \in TargetTos}
    \cup {Heartbeat(Every(5, "m"), "last", "", Unset, "unset")}

TargetEntries ==
    { NoEntry,
      Entry(0, "whatsapp", "+1222", NoText, Undef),
      Entry(0, "whatsapp", "120363@g.us", NoText, Undef),
      Entry(0, "whatsapp", "whatsapp:120363@G.US", NoText, Undef) }

TargetInit ==
    /\ now = 0
    /\ ticks = 0
    /\ \E h \in TargetHeartbeats, al \in AllowLists :
          cfg = [RunConfig(h, <<>>) EXCEPT !.allowFrom = al]
    /\ heartbeatsEnabled = TRUE
    /\ queueSize = 0
    /\ \E e \in TargetEntries :
          store = [k \in SessionKeys |->
                     IF k = MainKey("main") THEN e ELSE NoEntry]
    /\ heartbeatAgents = resolveHeartbeatAgents(cfg)
    /\ lastRunByAgent = [a \in AgentIds |-> Undef]
    /\ handler = FALSE
    /\ timer = FALSE
    /\ pendingWake = "none"
    /\ sweep = [s \in Slots |-> IdleSweep]
    /\ run = [s \in Slots |-> IdleRun]
    /\ sends = [s \in Slots |-> <<>>]
    /\ agentCalls = [s \in Slots |-> 0]
    /\ sweepLog = [s \in Slots |-> <<>>]
    /\ calls = 0
    /\ transcripts = [k \in DeliveryKeys |-> NoTranscript]
    /\ sessionLock = [k \in DeliveryKeys |-> FreeLock]
    /\ systemEvents = [k \in SessionKeys |-> <<>>]
    /\ prompts = <<>>

TargetNext ==
    \/ \E s \in Slots : CallRunHeartbeatOnce(s, "main")
    \/ \E s \in Slots, o \in {"context", "none"} : BuildContext(s, o)
    \/ \E s \in Slots, r \in SchedReplies : AgentReplies(s, r, FALSE)
    \/ \E s \in Slots : CheckReady(s, TRUE, TRUE, TRUE)
    \/ \E s \in Slots : SendPayload(s)
    \/ \E s \in Slots : SaveStore(s)
    \/ \E s \in Slots : AppendToDeliverySession(s)
    \/ \E s \in Slots : RunReturns(s)

TargetSpec == TargetInit /\ [][TargetNext]_vars

----------------------------------------------------------------------------
\* Runs of the agent "main" whose heartbeats go to a WhatsApp group, with
\* the group's session followed: its store entry, its transcript and the
\* write lock of the transcript.  Users' turns write to the store while the
\* runs are suspended, and the clock advances.

SessionConfig ==
    RunConfig(Heartbeat(Every(5, "m"), "whatsapp", GroupJid, Unset, "unset"),
              <<>>)

MainDeliveryKey ==
    resolveHeartbeatDeliverySessionKey(MainKey("main"), "whatsapp", GroupJid)

StoreKeys == SessionKeys \cup DeliveryKeys

Transcript(messages) ==
    [sessionId |-> "sid", exists |-> TRUE, readable |-> TRUE,
     messages |-> messages]

SessionTranscripts ==
    { NoTranscript,
      [Transcript(<<>>) EXCEPT !.exists = FALSE],
      [Transcript(<<Message("assistant", <<"seed">>)>>)
          EXCEPT !.readable = FALSE],
      Transcript(<<>>),
      Transcript(<<Message("toolResult", <<"a">>)>>),
      Transcript(<<Message("user", <<"sp">>)>>),
      Transcript(<<Message("user", <<"a">>)>>),
      Transcript(<<Message("assistant", <<"seed">>),
                   Message("user", <<"sp", "a">>)>>),
      Transcript(<<Message("user", <<"a">>)>>
                 \o [i \in 1..HEARTBEAT_CONTEXT_LIMIT |->
                        Message("toolResult", <<"b">>)]) }

SessionReplies == { <<TextOnly(<<"OK">>)>>, <<TextOnly(<<"sp", "a">>)>> }

SessionInit ==
    /\ now = 0
    /\ ticks = 0
    /\ cfg = SessionConfig
    /\ heartbeatsEnabled = TRUE
    /\ queueSize = 0
    /\ \E e \in {NoEntry, Entry(0, "", "", NoText, Undef)},
          d \in {NoEntry, Entry(0, "", "", NoText, Undef)} :
          store = [k \in StoreKeys |->
                     IF k = MainKey("main") THEN e
                     ELSE IF k = MainDeliveryKey THEN d
                     ELSE NoEntry]
    /\ heartbeatAgents = resolveHeartbeatAgents(cfg)
    /\ lastRunByAgent = [a \in AgentIds |-> Undef]
    /\ handler = FALSE
    /\ timer = FALSE
    /\ pendingWake = "none"
    /\ sweep = [s \in Slots |-> IdleSweep]
    /\ run = [s \in Slots |-> IdleRun]
    /\ sends = [s \in Slots |-> <<>>]
    /\ agentCalls = [s \in Slots |-> 0]
    /\ sweepLog = [s \in Slots |-> <<>>]
    /\ calls = 0
    /\ \E t \in SessionTranscripts :
          transcripts = [k \in DeliveryKeys |->
                            IF k = MainDeliveryKey THEN t ELSE NoTranscript]
    /\ sessionLock = [k \in DeliveryKeys |-> FreeLock]
    /\ systemEvents = [k \in SessionKeys |-> <<>>]
    /\ prompts = <<>>

SessionNext ==
    \/ \E s \in Slots : CallRunHeartbeatOnce(s, "main")
    \/ \E s \in Slots : ReadChannelContext(s)
    \/ \E s \in Slots, r \in SessionReplies : AgentReplies(s, r, FALSE)
    \/ \E s \in Slots : AgentThrows(s)
    \/ \E s \in Slots, l \in BOOLEAN : CheckReady(s, TRUE, TRUE, l)
    \/ \E s \in Slots : SendPayload(s)
    \/ \E s \in Slots : SendThrows(s)
    \/ \E s \in Slots : SaveStore(s)
    \/ \E s \in Slots : AppendBegins(s)
    \/ \E s \in Slots : AppendStats(s)
    \/ \E s \in Slots, t \in BOOLEAN : AppendLocks(s, t)
    \/ \E s \in Slots : AppendLockTimesOut(s)
    \/ \E s \in Slots : AppendReleases(s)
    \/ \E s \in Slots : AppendSaves(s)
    \/ \E s \in Slots : RunReturns(s)
    \/ \E k \in {MainKey("main"), MainDeliveryKey} : UserTurn(k)
    \/ Tick(HALF_DAY)

SessionSpec == SessionInit /\ [][SessionNext]_vars

----------------------------------------------------------------------------
\* System events and prompt builds of two main sessions: texts are queued
\* with `wake --mode next-heartbeat` and the prompts of the sessions drain
\* them.

EventTexts ==
    { <<"a">>, <<"b">>, <<"sp", "a", "sp">>, <<"sp">>,
      <<"Heartbeat:", "a">>, <<"a", "reason periodic">>,
      <<"Node:", "a", "last input">> }

EventsNext ==
    \/ \E k \in {MainKey("main"), MainKey("ops")}, t \in EventTexts :
          EnqueueSystemEvent(k, t)
    \/ \E k \in {MainKey("main"), MainKey("ops")}, new \in BOOLEAN :
          prependSystemEvents(k, TRUE, new)

EventsSpec == SchedInit /\ [][EventsNext]_vars

----------------------------------------------------------------------------
\* Properties of one run of runHeartbeatOnce (specification Spec).

\* The agent has replied in the run of slot s
Replied(s) ==
    \/ run[s].pc \in {"ready", "deliver", "save", "append"}
    \/ /\ run[s].pc = "done"
       /\ run[s].event \in {"ok-empty", "ok-token", "duplicate", "no-target",
                            "not-ready", "send-failed", "append-failed",
                            "sent"}

\* The main payload of the reply of the run of slot s
MainPayload(s) == run[s].reply[run[s].mainIdx]

\* The sends of the run of slot s that carry its main payload
MainSends(s) == {i \in 1..Len(sends[s]) : sends[s][i].main}

\* C1: in a run whose main payload survives ack normalization and carries no
\* media, whose trimmed normalized text equals the trimmed lastHeartbeatText
\* the main session entry held when the run began, and whose start time minus
\* that entry's lastHeartbeatSentAt is less than 24 hours, no send is made
\* and the run returns status "ran".
C1_DuplicateWithinDayNotSent ==
    \A s \in Slots :
        ( /\ Replied(s)
          /\ run[s].mainIdx # 0
          /\ ~run[s].shouldSkipMain
          /\ ~PayloadHasMedia(MainPayload(s))
          /\ run[s].entry.lastHeartbeatText # NoText
          /\ Trim(run[s].text) = Trim(run[s].entry.lastHeartbeatText)
          /\ run[s].entry.lastHeartbeatSentAt # Undef
          /\ run[s].startedAt - run[s].entry.lastHeartbeatSentAt < 24 * HOUR )
        => /\ sends[s] = <<>>
           /\ run[s].pc = "done"
           /\ run[s].result = Result("ran", "")

\* A run that began twelve hours after the same text was sent has ended as a
\* duplicate.
C1_Witness ==
    \E s \in Slots :
        /\ run[s].pc = "done"
        /\ run[s].event = "duplicate"
        /\ run[s].entry.lastHeartbeatSentAt = 0
        /\ run[s].startedAt = HALF_DAY
        /\ Trim(run[s].text) = Trim(run[s].entry.lastHeartbeatText)

\* The ack token stands at the start or at the end of the text
TokenAtEdge(t) ==
    /\ t # NoText
    /\ Trim(t) # <<>>
    /\ (Head(Trim(t)) = "OK" \/ Trim(t)[Len(Trim(t))] = "OK")

\* Text t ends with text u
EndsWith(t, u) ==
    /\ Len(u) <= Len(t)
    /\ SubSeq(t, Len(t) - Len(u) + 1, Len(t)) = u

\* ackMaxChars as configured: 300 by default, never negative
AckLimit(heartbeat) ==
    IF heartbeat.ackMaxChars = Unset THEN DEFAULT_HEARTBEAT_ACK_MAX_CHARS
    ELSE IF heartbeat.ackMaxChars < 0 THEN 0
    ELSE heartbeat.ackMaxChars

\* C2: for a main payload with the ack token at the start or the end of its
\* text, the payload is suppressed (no send carries it) if and only if the
\* text that remains after the token is stripped is at most ackMaxChars long
\* (300 by default, never negative) and the payload has no media; otherwise
\* the payload is kept with the token stripped and the remainder intact, and
\* that is the text a delivering run sends.  A reply that is exactly the token
\* is suppressed.
C2_AckClassification ==
    \A s \in Slots :
        (Replied(s) /\ run[s].mainIdx # 0 /\ TokenAtEdge(MainPayload(s).text))
        => LET p == MainPayload(s)
               rest == stripTokenAtEdges(p.text)
               small == TextLen(rest) <= AckLimit(run[s].heartbeat)
           IN  /\ run[s].shouldSkipMain <=> (small /\ ~PayloadHasMedia(p))
               /\ run[s].shouldSkipMain =>
                     /\ MainSends(s) = {}
                     /\ \A i \in 1..Len(run[s].pending) : ~run[s].pending[i].main
               /\ ~run[s].shouldSkipMain =>
                     /\ ~TokenAtEdge(run[s].text)
                     /\ EndsWith(run[s].text, rest)
                     /\ \A i \in MainSends(s) :
                           sends[s][i].payload.text = run[s].text
                     /\ run[s].pc \in {"ready", "deliver"} =>
                           (MainSends(s) # {}
                            \/ \E i \in 1..Len(run[s].pending) :
                                  run[s].pending[i].main)
                     /\ run[s].event = "sent" => MainSends(s) # {}
               /\ (p.text = <<"OK">> /\ ~PayloadHasMedia(p)) =>
                     run[s].shouldSkipMain

\* A reply of the token followed by 400 characters was delivered as the 400
\* characters under the default ackMaxChars.
C2_Witness ==
    \E s \in Slots :
        /\ run[s].pc = "done"
        /\ run[s].mainIdx # 0
        /\ run[s].event = "sent"
        /\ MainPayload(s).text = <<"OK", "sp", "X">>
        /\ AckLimit(run[s].heartbeat) = DEFAULT_HEARTBEAT_ACK_MAX_CHARS
        /\ \E i \in MainSends(s) : sends[s][i].payload.text = <<"X">>

\* C3 as stated: a run that ends with nothing delivered (an empty reply, an
\* ack-suppressed main payload with no reasoning payloads, or a duplicate)
\* leaves updatedAt of the main session entry at the value it had before the
\* run began, also when the agent turn advanced it.
C3_UpdatedAtRestored ==
    \A s \in Slots :
        ( /\ run[s].pc = "done"
          /\ run[s].event \in {"ok-empty", "ok-token", "duplicate"}
          /\ run[s].entry.present )
        => store[run[s].sessionKey].updatedAt = run[s].previousUpdatedAt

\* A call of runHeartbeatOnce is made in slot s in this step
RunBegins(s) == run[s].pc = "idle" /\ run'[s].pc # "idle"

\* The three gates checked before the queue (lines 541-553) let the run of
\* agent agentId with heartbeat block heartbeat pass
EarlierGatesPass(agentId, heartbeat) ==
    /\ heartbeatsEnabled
    /\ isHeartbeatEnabledForAgent(cfg, agentId)
    /\ resolveHeartbeatIntervalMs(cfg, EveryUnset, heartbeat) # Undef

\* C5 as stated: a run that begins while the main queue holds one or more
\* items returns skipped/requests-in-flight with no agent call, no send and
\* no change of the session store.
C5_BusyQueueSkipsInFlight ==
    [][\A s \in Slots :
          (RunBegins(s) /\ queueSize > 0)
          => /\ run'[s].pc = "done"
             /\ run'[s].result = Result("skipped", "requests-in-flight")
             /\ agentCalls'[s] = 0
             /\ sends'[s] = <<>>
             /\ store' = store]_vars

\* C5 as amended: a run that begins while the main queue holds one or more
\* items returns status "skipped" with no agent call, no send and no change
\* of the session store; the reason is "requests-in-flight" when heartbeats
\* are enabled globally and for the agent and the interval is valid, and
\* "disabled" otherwise.
C5_BusyQueueSkips ==
    [][\A s \in Slots :
          (RunBegins(s) /\ queueSize > 0)
          => /\ run'[s].pc = "done"
             /\ run'[s].result =
                   Result("skipped",
                          IF EarlierGatesPass(run'[s].agentId, run'[s].heartbeat)
                          THEN "requests-in-flight" ELSE "disabled")
             /\ agentCalls'[s] = 0
             /\ sends'[s] = <<>>
             /\ store' = store]_vars

\* A run has been turned away by the busy queue.
C5_Witness ==
    \E s \in Slots :
        /\ run[s].pc = "done"
        /\ run[s].result = Result("skipped", "requests-in-flight")
        /\ queueSize > 0
        /\ heartbeatsEnabled

\* The last-sent state of the main session of the run of slot s in store st
\* is what it was when the run began
LastSentUnchanged(s, st) ==
    LET k == run[s].sessionKey
    IN  /\ st[k].lastHeartbeatText = run[s].entry.lastHeartbeatText
        /\ st[k].lastHeartbeatSentAt = run[s].entry.lastHeartbeatSentAt

\* C9: when the agent invocation or the outbound dispatch throws, the run
\* returns status "failed" with a reason, the step makes no agent call and
\* no send, the last-sent state of the main session is what it was when the
\* run began, and the finished run makes no agent call and no send.
C9_ThrowFailsWithoutRetry ==
    [][\A s \in Slots :
          /\ ( /\ run[s].pc \in {"agent", "deliver"}
               /\ run'[s].pc = "done"
               /\ run'[s].result.status \notin {"ran", "skipped"} )
             => /\ run'[s].result.status = "failed"
                /\ run'[s].result.reason # ""
                /\ agentCalls'[s] = agentCalls[s]
                /\ sends'[s] = sends[s]
                /\ LastSentUnchanged(s, store')
          /\ ( /\ run[s].pc = "done"
               /\ run[s].event \in {"agent-failed", "send-failed"} )
             => /\ run'[s].pc = "idle" \/ run'[s] = run[s]
                /\ Len(sends'[s]) <= Len(sends[s])
                /\ agentCalls'[s] <= agentCalls[s]
                /\ run'[s].pc # "idle" => LastSentUnchanged(s, store')]_vars

\* A send has thrown in a run whose reasoning payload was already sent and
\* whose main text differs from the one last sent.
C9_Witness ==
    \E s \in Slots :
        /\ run[s].pc = "done"
        /\ run[s].event = "send-failed"
        /\ run[s].result.status = "failed"
        /\ Len(sends[s]) = 1
        /\ run[s].entry.present
        /\ run[s].text # run[s].entry.lastHeartbeatText

----------------------------------------------------------------------------
\* Properties of the scheduler's sweeps (specification SchedSpec).

\* The run of slot s is suspended at an await
Suspended(s) == run[s].pc \notin {"idle", "done"}

Backpressure == Result("skipped", "requests-in-flight")

\* C6: once a run of a sweep has returned skipped/requests-in-flight, it is
\* the last run of the sweep, whatever the earlier runs of the sweep
\* returned, and the sweep's result is skipped/requests-in-flight.
C6_BackpressureEndsSweep ==
    \A s \in Slots :
        \A i \in 1..Len(sweepLog[s]) :
            sweepLog[s][i].result = Backpressure
            => /\ i = Len(sweepLog[s])
               /\ sweep[s].pc = "done"
               /\ sweep[s].result = Backpressure
               /\ run[s].pc = "done"
               /\ run[s].agentId = sweepLog[s][i].agentId

\* A sweep has ended with backpressure from its second run, after a first run
\* that ran.
C6_Witness ==
    \E s \in Slots :
        /\ sweep[s].pc = "done"
        /\ Len(sweepLog[s]) = 2
        /\ sweepLog[s][1].result.status = "ran"
        /\ sweepLog[s][2].result = Backpressure

\* The agent at position j of the sweep's list has a valid interval
ValidInterval(j) ==
    resolveHeartbeatIntervalMs(cfg, EveryUnset, heartbeatAgents[j].heartbeat) # Undef

\* The positions of the list the loop of the sweep of slot s has come to:
\* none when the sweep returned at the global switch, the positions up to the
\* awaited run while the loop runs or when it ended there, all otherwise
Reached(s) ==
    {j \in 1..Len(heartbeatAgents) : j <= sweep[s].idx}

\* The sweep of slot s has called runHeartbeatOnce for the agent at position j
IsRun(s, j) ==
    \/ sweep[s].pc = "await" /\ sweep[s].idx = j
    \/ \E i \in 1..Len(sweepLog[s]) :
          sweepLog[s][i].agentId = heartbeatAgents[j].agentId

\* The last-run time of the agent at position j when the sweep of slot s
\* came to it
LastRunBefore(s, j) ==
    LET a == heartbeatAgents[j].agentId
    IN  IF \E i \in 1..Len(sweepLog[s]) : sweepLog[s][i].agentId = a
        THEN sweepLog[s][CHOOSE i \in 1..Len(sweepLog[s]) :
                            sweepLog[s][i].agentId = a].lastRun
        ELSE lastRunByAgent[a]

\* No last-run time is recorded, or the interval has elapsed since it
IntervalElapsed(s, j) ==
    \/ LastRunBefore(s, j) = Undef
    \/ sweep[s].now - LastRunBefore(s, j)
          >= resolveHeartbeatIntervalMs(cfg, EveryUnset, heartbeatAgents[j].heartbeat)

\* The sweep of slot s has returned a result that is neither the global
\* switch's skip nor an exception
SweepCompleted(s) ==
    /\ sweep[s].pc = "done"
    /\ sweep[s].result # Result("skipped", "disabled")
    /\ sweep[s].result.status # "threw"

\* C7 as stated: in a sweep with reason "interval" an eligible agent (with a
\* resolved interval) is run if and only if it has no recorded last-run time
\* or the sweep time minus its last-run time is at least its interval.
C7_RunIffIntervalElapsed ==
    \A s \in Slots :
        (SweepCompleted(s) /\ sweep[s].reason = "interval")
        => \A j \in 1..Len(heartbeatAgents) :
              ValidInterval(j) => (IsRun(s, j) <=> IntervalElapsed(s, j))

\* C7 as amended: in a sweep with reason "interval", an eligible agent that
\* the sweep's loop comes to is run if and only if it has no recorded
\* last-run time or the sweep time minus its last-run time is at least its
\* interval; a last-run time changes only for the agent whose run the sweep
\* has awaited, to that sweep's time, and only when the run returned neither
\* skipped/disabled nor skipped/requests-in-flight.
C7_ReachedRunIffIntervalElapsed ==
    /\ [](\A s \in Slots :
            sweep[s].reason = "interval"
            => \A j \in Reached(s) :
                  ValidInterval(j) => (IsRun(s, j) <=> IntervalElapsed(s, j)))
    /\ [][\A a \in AgentIds :
            lastRunByAgent'[a] # lastRunByAgent[a]
            => \E s \in Slots :
                  /\ sweep[s].pc = "await"
                  /\ run[s].pc = "done"
                  /\ heartbeatAgents[sweep[s].idx].agentId = a
                  /\ run[s].agentId = a
                  /\ run[s].result # Result("skipped", "disabled")
                  /\ run[s].result # Backpressure
                  /\ lastRunByAgent'[a] = sweep[s].now]_vars

\* An interval sweep has passed over the hourly agent, run half an hour
\* before, and has run the half-hourly agent, whose interval has just elapsed.
C7_Witness ==
    \E s \in Slots :
        /\ sweep[s].reason = "interval"
        /\ sweep[s].pc = "done"
        /\ Len(sweepLog[s]) = 1
        /\ sweepLog[s][1].agentId = "main"
        /\ sweepLog[s][1].lastRun # Undef
        /\ sweep[s].now - sweepLog[s][1].lastRun = HALF_HOUR
        /\ lastRunByAgent["ops"] # Undef
        /\ sweep[s].now - lastRunByAgent["ops"] = HALF_HOUR

\* C8 as stated: a sweep whose reason is not "interval" runs every eligible
\* agent that has a valid interval and sets its last-run time to the time of
\* the sweep.
C8_WakeRunsEveryAgent ==
    \A s \in Slots :
        (SweepCompleted(s) /\ sweep[s].reason # "interval")
        => \A j \in 1..Len(heartbeatAgents) :
              ValidInterval(j)
              => /\ IsRun(s, j)
                 /\ lastRunByAgent[heartbeatAgents[j].agentId] = sweep[s].now

\* C8 as amended: a sweep whose reason is not "interval" runs every eligible
\* agent with a valid interval that its loop comes to, however recently the
\* agent last ran, and sets the agent's last-run time to the time of the
\* sweep unless the run returned skipped/disabled or
\* skipped/requests-in-flight or threw; the loop ends at a run that returns
\* skipped/requests-in-flight or throws.
C8_WakeRunsEveryReachedAgent ==
    \A s \in Slots :
        (sweep[s].pc # "idle" /\ sweep[s].reason # "interval")
        => /\ \A j \in Reached(s) : ValidInterval(j) => IsRun(s, j)
           /\ \A i \in 1..Len(sweepLog[s]) :
                 LET res == sweepLog[s][i].result
                 IN  IF res = Result("skipped", "disabled")
                        \/ res = Backpressure \/ res.status = "threw"
                     THEN lastRunByAgent[sweepLog[s][i].agentId]
                             = sweepLog[s][i].lastRun
                     ELSE lastRunByAgent[sweepLog[s][i].agentId] = sweep[s].now
           /\ (sweep[s].pc = "done" /\ sweep[s].idx \in 1..Len(heartbeatAgents))
              => (sweep[s].result = Backpressure
                  \/ sweep[s].result.status = "threw")

\* A wake sweep has run both agents in the instant of their last runs.
C8_Witness ==
    \E s \in Slots :
        /\ sweep[s].reason = "wake"
        /\ sweep[s].pc = "done"
        /\ Len(sweepLog[s]) = 2
        /\ \A i \in 1..2 :
              /\ sweepLog[s][i].lastRun = sweep[s].now
              /\ sweepLog[s][i].result.status = "ran"
              /\ lastRunByAgent[sweepLog[s][i].agentId] = sweep[s].now

\* C10 as stated: no exception escapes a run into the sweep: no call of
\* runHeartbeatOnce ends by throwing, and no sweep is ended by an exception
\* with eligible agents left.
C10_NoExceptionEscapesRun ==
    \A s \in Slots :
        /\ run[s].result.status # "threw"
        /\ sweep[s].result.status # "threw"

\* The agent of the entry i of the log of the sweep of slot s
LoggedAgent(s, i) ==
    LET a == sweepLog[s][i].agentId
    IN  heartbeatAgents[CHOOSE j \in 1..Len(heartbeatAgents) :
                           heartbeatAgents[j].agentId = a]

\* The last-run time of every agent whose run a sweep has awaited is the
\* sweep's time when the run returned neither skipped/disabled nor
\* skipped/requests-in-flight, and the time it was before otherwise; an
\* interval sweep runs an agent that has a last-run time only when the
\* agent's interval has elapsed since then
LastRunFollowsResult ==
    \A s \in Slots :
        /\ \A i \in 1..Len(sweepLog[s]) :
              LET res == sweepLog[s][i].result
              IN  IF res = Result("skipped", "disabled")
                     \/ res = Backpressure \/ res.status = "threw"
                  THEN lastRunByAgent[sweepLog[s][i].agentId]
                          = sweepLog[s][i].lastRun
                  ELSE lastRunByAgent[sweepLog[s][i].agentId] = sweep[s].now
        /\ sweep[s].reason = "interval"
           => \A j \in Reached(s) :
                 (ValidInterval(j) /\ IsRun(s, j)) => IntervalElapsed(s, j)

\* C37 as stated: the last-run time follows the result of the run, and an
\* agent skipped for backpressure is attempted again on the next tick: an
\* interval sweep at any time from now on does not pass it over.
C37_BackpressureRetriedNextTick ==
    /\ LastRunFollowsResult
    /\ \A s \in Slots :
          \A i \in 1..Len(sweepLog[s]) :
             sweepLog[s][i].result = Backpressure
             => AgentIsDue(LoggedAgent(s, i), "interval", now, lastRunByAgent)

\* C37 as amended: the last-run time follows the result of the run, so an
\* agent whose run failed or was skipped as not ready is run by a later
\* interval sweep only when its interval has elapsed since that sweep; an
\* agent skipped for backpressure keeps its old last-run time, and when the
\* sweep was an interval sweep it stays due, so that the next interval sweep
\* that comes to it runs it again.
C37_LastRunFollowsResult ==
    /\ LastRunFollowsResult
    /\ \A s \in Slots :
          \A i \in 1..Len(sweepLog[s]) :
             (sweepLog[s][i].result = Backpressure /\ sweep[s].reason = "interval")
             => AgentIsDue(LoggedAgent(s, i), "interval", now, lastRunByAgent)

\* An interval sweep has recorded the sweep's time for an agent whose
\* channel was not ready, and has ended at backpressure from the next agent,
\* whose last-run time is as before.
C37_Witness ==
    \E s \in Slots :
        /\ sweep[s].pc = "done"
        /\ sweep[s].reason = "interval"
        /\ Len(sweepLog[s]) = 2
        /\ sweepLog[s][1].result.status = "skipped"
        /\ sweepLog[s][1].result.reason
              \in {"whatsapp-disabled", "whatsapp-not-linked",
                   "whatsapp-not-running"}
        /\ lastRunByAgent[sweepLog[s][1].agentId] = sweep[s].now
        /\ sweepLog[s][2].result = Backpressure
        /\ lastRunByAgent[sweepLog[s][2].agentId] = sweepLog[s][2].lastRun

----------------------------------------------------------------------------
\* Properties of the payloads a run sends (specification Spec).

\* includeReasoning is enabled for the run of slot s
ReasoningEnabled(s) == run[s].heartbeat.includeReasoning = "true"

\* The indices, in reply order, of the reasoning payloads of the reply of the
\* run of slot s other than its main payload, up to index n
RECURSIVE ReasoningUpTo(_, _)
ReasoningUpTo(s, n) ==
    IF n = 0 THEN <<>>
    ELSE IF n # run[s].mainIdx /\ IsReasoningText(run[s].reply[n])
         THEN Append(ReasoningUpTo(s, n - 1), n)
         ELSE ReasoningUpTo(s, n - 1)

ReasoningIdxs(s) == ReasoningUpTo(s, Len(run[s].reply))

\* deliverOutboundPayloads has returned in the run of slot s
DeliveryDone(s) ==
    \/ run[s].pc \in {"save", "append"}
    \/ run[s].pc = "done" /\ run[s].event \in {"sent", "append-failed"}

\* The delivery target of the run of slot s has a channel and a recipient
HasTarget(s) == run[s].delivery.channel # "none" /\ run[s].delivery.to # ""

\* C11 as stated: with includeReasoning enabled, the reasoning payloads of
\* the reply are delivered also in a run whose main payload is suppressed as
\* a duplicate of lastHeartbeatText within 24 hours.
C11_ReasoningSentOnDuplicate ==
    \A s \in Slots :
        ( /\ run[s].pc = "done"
          /\ run[s].event = "duplicate"
          /\ ReasoningEnabled(s)
          /\ ReasoningIdxs(s) # <<>>
          /\ HasTarget(s) )
        => /\ Len(sends[s]) = Len(ReasoningIdxs(s))
           /\ \A i \in 1..Len(sends[s]) :
                 sends[s][i].payload = run[s].reply[ReasoningIdxs(s)[i]]

\* C12: with includeReasoning enabled, a main payload that is ack-suppressed
\* and reasoning payloads in the reply, the run does not end as an ack-only
\* run: it goes on to the delivery, no send carries the main payload or its
\* text, the sends are the reasoning payloads, and a run that completes its
\* delivery has made one send per reasoning payload.
C12_ReasoningSentWhenAckSuppressed ==
    \A s \in Slots :
        ( /\ Replied(s)
          /\ ReasoningEnabled(s)
          /\ run[s].mainIdx # 0
          /\ run[s].shouldSkipMain
          /\ ReasoningIdxs(s) # <<>> )
        => /\ run[s].event # "ok-token"
           /\ MainSends(s) = {}
           /\ Len(sends[s]) <= Len(ReasoningIdxs(s))
           /\ \A i \in 1..Len(sends[s]) :
                 /\ sends[s][i].payload = run[s].reply[ReasoningIdxs(s)[i]]
                 /\ sends[s][i].payload.text # MainPayload(s).text
           /\ DeliveryDone(s) => Len(sends[s]) = Len(ReasoningIdxs(s))

\* A reply of a reasoning payload and HEARTBEAT_OK has been delivered as the
\* one reasoning payload.
C12_Witness ==
    \E s \in Slots :
        /\ run[s].pc = "done"
        /\ run[s].event = "sent"
        /\ ReasoningEnabled(s)
        /\ run[s].mainIdx # 0
        /\ MainPayload(s).text = <<"OK">>
        /\ Len(sends[s]) = 1
        /\ sends[s][1].payload.text = <<"R", "a">>

\* What the run of slot s is to send, in order: its reasoning payloads when
\* includeReasoning is enabled, then its main payload unless suppressed
ExpectedSends(s) ==
    [i \in 1..(IF ReasoningEnabled(s) THEN Len(ReasoningIdxs(s)) ELSE 0) |->
        [payload |-> run[s].reply[ReasoningIdxs(s)[i]], main |-> FALSE]]
    \o (IF run[s].shouldSkipMain THEN <<>>
        ELSE <<[payload |-> Payload(run[s].text, "", run[s].mediaUrls),
                main |-> TRUE]>>)

\* C13: in a run that dispatches, the sends made so far are the first of: the
\* reasoning payloads in the order of the reply, then the main payload; each
\* goes to the resolved channel and recipient of the run; a run that
\* completes its delivery has made all of them.
C13_ReasoningFirstMainLast ==
    \A s \in Slots :
        (Replied(s) /\ run[s].mainIdx # 0)
        => /\ Len(sends[s]) <= Len(ExpectedSends(s))
           /\ \A i \in 1..Len(sends[s]) :
                 /\ sends[s][i].payload = ExpectedSends(s)[i].payload
                 /\ sends[s][i].main = ExpectedSends(s)[i].main
                 /\ sends[s][i].channel = run[s].delivery.channel
                 /\ sends[s][i].to = run[s].delivery.to
           /\ DeliveryDone(s) => Len(sends[s]) = Len(ExpectedSends(s))

\* Two reasoning payloads and the main payload have been sent, in that order.
C13_Witness ==
    \E s \in Slots :
        /\ run[s].pc = "done"
        /\ run[s].event = "sent"
        /\ Len(sends[s]) = 3
        /\ sends[s][1].payload.text = <<"R", "a">>
        /\ sends[s][2].payload.text = <<"R", "b">>
        /\ sends[s][3].main
        /\ sends[s][3].payload.text = <<"a">>

\* Payload p carries non-empty text or media
Carries(p) == HasText(p) \/ PayloadHasMedia(p)

\* C14: the main payload is the last payload of the reply that carries
\* non-empty text or media; with includeReasoning not enabled a run makes at
\* most one send, which carries the main payload: its normalized text and its
\* media.
C14_LastPayloadIsMain ==
    \A s \in Slots :
        Replied(s)
        => /\ IF \E i \in 1..Len(run[s].reply) : Carries(run[s].reply[i])
              THEN /\ run[s].mainIdx \in 1..Len(run[s].reply)
                   /\ Carries(MainPayload(s))
                   /\ \A i \in (run[s].mainIdx + 1)..Len(run[s].reply) :
                         ~Carries(run[s].reply[i])
              ELSE run[s].mainIdx = 0
           /\ ~ReasoningEnabled(s)
              => /\ Len(sends[s]) <= 1
                 /\ \A i \in 1..Len(sends[s]) :
                       /\ sends[s][i].main
                       /\ sends[s][i].payload.mediaUrls
                             = MainMediaUrls(MainPayload(s))
                       /\ EndsWith(sends[s][i].payload.text,
                                   stripTokenAtEdges(
                                      IF MainPayload(s).text = NoText THEN <<>>
                                      ELSE MainPayload(s).text))

\* A reply of two text payloads has been delivered as one send of the second.
C14_Witness ==
    \E s \in Slots :
        /\ run[s].pc = "done"
        /\ run[s].event = "sent"
        /\ ~ReasoningEnabled(s)
        /\ Len(run[s].reply) = 2
        /\ run[s].reply[1].text = <<"b">>
        /\ Len(sends[s]) = 1
        /\ sends[s][1].payload.text = <<"a">>

\* The last-sent fields of session key k differ between stores st and st2
LastSentDiffers(k, st, st2) ==
    \/ st[k].lastHeartbeatText # st2[k].lastHeartbeatText
    \/ st[k].lastHeartbeatSentAt # st2[k].lastHeartbeatSentAt

\* The store st records the text and the start time of the run of slot s
LastSentIsThisRun(s, st) ==
    LET k == run[s].sessionKey
    IN  /\ st[k].lastHeartbeatText = run[s].text
        /\ st[k].lastHeartbeatSentAt = run[s].startedAt

\* The run of slot s returns in this step
RunEnds(s) == run[s].pc \notin {"idle", "done"} /\ run'[s].pc = "done"

\* The run of slot s has dispatched its main payload without error
MainDispatched(s) == DeliveryDone(s) /\ MainSends(s) # {}

\* C15 as stated: lastHeartbeatText and lastHeartbeatSentAt change only in a
\* run whose main payload was dispatched without error; when such a run
\* returns they equal the delivered normalized text and the start time of the
\* run; a run that returns in any other way, or fails, leaves them unchanged.
C15_LastSentTracksDispatch ==
    [][/\ \A k \in SessionKeys :
             LastSentDiffers(k, store, store')
             => \E s \in Slots : run[s].sessionKey = k /\ MainDispatched(s)
       /\ \A s \in Slots :
             RunEnds(s)
             => /\ ( MainDispatched(s) /\ run'[s].result.status = "ran" )
                   => LastSentIsThisRun(s, store')
                /\ ( ~MainDispatched(s) \/ run'[s].result.status = "failed" )
                   => LastSentUnchanged(s, store')]_vars

\* C15, amended: the two fields change only in a run whose main payload was
\* dispatched without error; when such a run returns they equal the
\* delivered normalized text and the start time of the run if that text is
\* not blank and the store has an entry for the session, and are unchanged
\* otherwise; a run that returns without having dispatched its main payload
\* (skipped, ack-suppressed, duplicate, no target, channel not ready,
\* reasoning only, failed in the agent invocation or in the dispatch) leaves
\* them unchanged.
C15_LastSentChangesOnlyOnDispatch ==
    [][/\ \A k \in SessionKeys :
             LastSentDiffers(k, store, store')
             => \E s \in Slots : run[s].sessionKey = k /\ MainDispatched(s)
       /\ \A s \in Slots :
             RunEnds(s)
             => IF MainDispatched(s)
                THEN IF Trim(run[s].text) # <<>>
                        /\ store[run[s].sessionKey].present
                     THEN LastSentIsThisRun(s, store')
                     ELSE LastSentUnchanged(s, store')
                ELSE LastSentUnchanged(s, store')]_vars

\* A run has delivered a text other than the one recorded before it and has
\* recorded it with its start time.
C15_Witness ==
    \E s \in Slots :
        /\ run[s].pc = "done"
        /\ run[s].event = "sent"
        /\ MainSends(s) # {}
        /\ run[s].entry.lastHeartbeatText # run[s].text
        /\ LastSentIsThisRun(s, store)

\* The run of slot s has produced, as its main payload, the non-media text
\* recorded as last sent
SameTextAgain(s) ==
    /\ Replied(s)
    /\ run[s].mainIdx # 0
    /\ ~run[s].shouldSkipMain
    /\ ~PayloadHasMedia(MainPayload(s))
    /\ run[s].entry.lastHeartbeatText # NoText
    /\ Trim(run[s].text) # <<>>
    /\ Trim(run[s].text) = Trim(run[s].entry.lastHeartbeatText)
    /\ run[s].entry.lastHeartbeatSentAt # Undef

\* C16: a run that produces the text last delivered and starts 24 hours or
\* more after that delivery is not suppressed as a duplicate: it goes on to
\* the delivery and, completing it, has sent the text and recorded its own
\* start time; a run suppressed as a duplicate started less than 24 hours
\* after the delivery and leaves lastHeartbeatText and lastHeartbeatSentAt as
\* they were, so the window stays measured from the last delivery.
C16_WindowFromLastDelivery ==
    \A s \in Slots :
        /\ ( /\ SameTextAgain(s)
             /\ run[s].startedAt - run[s].entry.lastHeartbeatSentAt >= 24 * HOUR )
           => /\ run[s].event # "duplicate"
              /\ run[s].pc = "done" /\ run[s].event = "sent"
                 => /\ MainSends(s) # {}
                    /\ LastSentIsThisRun(s, store)
        /\ ( run[s].pc = "done" /\ run[s].event = "duplicate" )
           => /\ SameTextAgain(s)
              /\ run[s].startedAt - run[s].entry.lastHeartbeatSentAt < 24 * HOUR
              /\ LastSentUnchanged(s, store)

\* The text sent at time 0 has been sent again by the second run, which
\* started 24 hours later.
C16_Witness ==
    \E s \in Slots :
        /\ calls = 2
        /\ SameTextAgain(s)
        /\ run[s].entry.lastHeartbeatSentAt = 0
        /\ run[s].startedAt = 24 * HOUR
        /\ run[s].pc = "done"
        /\ run[s].event = "sent"
        /\ MainSends(s) # {}
        /\ store[run[s].sessionKey].lastHeartbeatSentAt = 24 * HOUR

\* The reason WhatsApp gives for the readiness inputs seen: web disabled,
\* else no auth, else no active listener; "ok" when none applies
WhatsAppReason(seen) ==
    IF ~seen[1] THEN "whatsapp-disabled"
    ELSE IF ~seen[2] THEN "whatsapp-not-linked"
    ELSE IF ~seen[3] THEN "whatsapp-not-running"
    ELSE "ok"

\* C17: a run whose delivery channel has a readiness check that answered
\* not-ok has made no send, has returned skipped with the reason of the
\* channel, not failed, and has left the last-sent fields as they were; for
\* WhatsApp the reason is whatsapp-disabled when web is disabled, else
\* whatsapp-not-linked when no auth exists, else whatsapp-not-running when no
\* listener is active.  A run whose check was answered is past the check
\* only if the answer was ok.
C17_NotReadySkipsWithChannelReason ==
    \A s \in Slots :
        run[s].readiness # <<>>
        => /\ run[s].delivery.channel = "whatsapp"
           /\ IF WhatsAppReason(run[s].readiness) = "ok"
              THEN run[s].event # "not-ready"
              ELSE /\ run[s].pc = "done"
                   /\ run[s].event = "not-ready"
                   /\ run[s].result.status = "skipped"
                   /\ run[s].result.reason = WhatsAppReason(run[s].readiness)
                   /\ sends[s] = <<>>
                   /\ LastSentUnchanged(s, store)

\* A run to WhatsApp with web enabled, no auth and no listener has been
\* skipped as not linked.
C17_Witness ==
    \E s \in Slots :
        /\ run[s].pc = "done"
        /\ run[s].readiness = <<TRUE, FALSE, FALSE>>
        /\ run[s].result = Result("skipped", "whatsapp-not-linked")
        /\ sends[s] = <<>>

\* C18: in every run that reaches the agent, the SessionKey handed to the
\* agent is the main session key of the run's agent, or the key "global"
\* when the session scope is global; it differs from the delivery session
\* key whenever the delivery resolves to another session.
C18_AgentRunsInMainSession ==
    \A s \in Slots :
        agentCalls[s] > 0
        => /\ run[s].ctxSessionKey =
                 IF cfg.scope = "global" THEN GlobalKey
                 ELSE MainKey(run[s].agentId)
           /\ ( run[s].deliverySessionKey # NoKey
                /\ run[s].deliverySessionKey # run[s].sessionKey )
              => run[s].ctxSessionKey # run[s].deliverySessionKey

\* The agent has been invoked with the main session key of agent "main" in a
\* run whose delivery goes to the session of a WhatsApp group.
C18_Witness ==
    \E s \in Slots :
        /\ agentCalls[s] > 0
        /\ run[s].delivery.channel = "whatsapp"
        /\ run[s].deliverySessionKey # NoKey
        /\ run[s].deliverySessionKey # run[s].sessionKey
        /\ run[s].ctxSessionKey = MainKey("main")

\* The agents of config c whose agents.list entry has a heartbeat block
ExplicitHeartbeatIds(c) ==
    {c.list[i].id : i \in {j \in 1..Len(c.list) : c.list[j].heartbeat.present}}

\* The agent-level gate as the configuration documents it
EnabledByList(c, agentId) ==
    IF ExplicitHeartbeatIds(c) # {} THEN agentId \in ExplicitHeartbeatIds(c)
    ELSE agentId = resolveDefaultAgentId(c)

\* C19: if any agents.list entry has a heartbeat block, heartbeats are
\* enabled exactly for the agents whose entry has one, otherwise only for the
\* default agent: a run begun for an agent that is not enabled returns
\* skipped/disabled at once and never invokes the agent; a run begun for an
\* enabled agent, with the switch on, a valid interval and an empty queue, is
\* not skipped; the agent is only ever invoked for an enabled agent.
C19_AgentLevelGating ==
    /\ [](\A s \in Slots :
            agentCalls[s] > 0 => EnabledByList(cfg, run[s].agentId))
    /\ [][\A s \in Slots :
            RunBegins(s)
            => IF ~EnabledByList(cfg, run'[s].agentId)
               THEN /\ run'[s].pc = "done"
                    /\ run'[s].result = Result("skipped", "disabled")
                    /\ agentCalls'[s] = 0
                    /\ sends'[s] = <<>>
               ELSE ( /\ heartbeatsEnabled
                      /\ resolveHeartbeatIntervalMs(cfg, EveryUnset, run'[s].heartbeat) # Undef
                      /\ queueSize = 0 )
                    => run'[s].pc # "done"]_vars

\* With a heartbeat block on the entry of "ops" only, a run for the default
\* agent "main" has been skipped as disabled, the switch being on.
C19_Witness ==
    \E s \in Slots :
        /\ cfg = ExplicitAgentsConfig
        /\ heartbeatsEnabled
        /\ run[s].pc = "done"
        /\ run[s].agentId = "main"
        /\ run[s].result = Result("skipped", "disabled")
        /\ agentCalls[s] = 0

----------------------------------------------------------------------------
\* Properties of the global switch (specification SchedSpec).

\* The wake handler is invoked in slot s in this step, for an interval tick
\* or for a wake request
SweepBegins(s) == sweep[s].pc = "idle" /\ sweep'[s].pc # "idle"

Disabled == Result("skipped", "disabled")

\* C20: while the global switch is off, every invocation of the handler, for
\* an interval tick or a wake request, and every call of runHeartbeatOnce
\* returns skipped/disabled at once with no agent invocation, no send and no
\* write to the session store; with the switch on, an invocation of the
\* handler is not answered disabled, a wake starts the run of the first
\* agent, and a run is not answered disabled.
C20_SwitchOffDisablesEverything ==
    [][\A s \in Slots :
          /\ SweepBegins(s)
             => IF ~heartbeatsEnabled
                THEN /\ sweep'[s].pc = "done"
                     /\ sweep'[s].result = Disabled
                     /\ sweep'[s].reason \in {"interval", "wake"}
                     /\ run' = run
                     /\ agentCalls' = agentCalls
                     /\ sends' = sends
                     /\ store' = store
                ELSE /\ sweep'[s].result # Disabled
                     /\ sweep'[s].reason = "wake"
                        => /\ RunBegins(s)
                           /\ run'[s].agentId = heartbeatAgents[1].agentId
          /\ RunBegins(s)
             => IF ~heartbeatsEnabled
                THEN /\ run'[s].pc = "done"
                     /\ run'[s].result = Disabled
                     /\ agentCalls'[s] = 0
                     /\ sends'[s] = <<>>
                     /\ store' = store
                ELSE run'[s].result # Disabled]_vars

\* With the switch off the handler has answered a wake with skipped/disabled,
\* having started no run.
C20_Witness ==
    \E s \in Slots :
        /\ ~heartbeatsEnabled
        /\ sweep[s].pc = "done"
        /\ sweep[s].reason = "wake"
        /\ sweep[s].result = Disabled
        /\ sweepLog[s] = <<>>
        /\ run[s].pc = "idle"
        /\ agentCalls[s] = 0

----------------------------------------------------------------------------
\* Properties of the prompt and of the delivery target (specification Spec).

\* The delivery of the run of slot s resolves to a session other than the
\* session the run executes in
DeliversElsewhere(s) ==
    /\ run[s].deliverySessionKey # NoKey
    /\ run[s].deliverySessionKey # run[s].sessionKey

\* C21 as stated: the Body handed to the agent carries the delivery-channel
\* history only if includeDeliveryChannelHistory is enabled and the delivery
\* resolves to a session other than the main session; with the flag not
\* enabled the Body is exactly the resolved heartbeat prompt.
C21_HistoryOnlyWhenEnabled ==
    \A s \in Slots :
        agentCalls[s] > 0
        => /\ run[s].body # resolveHeartbeatPrompt(cfg, run[s].heartbeat)
              => /\ run[s].heartbeat.includeDeliveryChannelHistory = "true"
                 /\ DeliversElsewhere(s)
           /\ run[s].heartbeat.includeDeliveryChannelHistory # "true"
              => run[s].body = resolveHeartbeatPrompt(cfg, run[s].heartbeat)

\* C22: a run whose delivery resolves to channel "none" or to no recipient,
\* and whose main payload is neither suppressed nor a duplicate, has invoked
\* the agent, has made no send and has left the last-sent fields as they
\* were; it has ended at the target check.
C22_NoTargetRunsAgentSendsNothing ==
    \A s \in Slots :
        ( /\ Replied(s)
          /\ run[s].delivery.channel = "none" \/ run[s].delivery.to = ""
          /\ run[s].event \notin {"ok-empty", "ok-token", "duplicate"} )
        => /\ run[s].pc = "done"
           /\ run[s].event = "no-target"
           /\ agentCalls[s] = 1
           /\ sends[s] = <<>>
           /\ LastSentUnchanged(s, store)

\* With target "none" a run whose agent replied with a plain text has ended
\* without a send.
C22_Witness ==
    \E s \in Slots :
        /\ run[s].pc = "done"
        /\ run[s].event = "no-target"
        /\ run[s].heartbeat.target = "none"
        /\ run[s].delivery.channel = "none"
        /\ run[s].text = <<"a">>
        /\ agentCalls[s] = 1
        /\ sends[s] = <<>>

\* The run of slot s has ended for want of a usable channel or recipient
EndedWithoutTarget(s) ==
    /\ run[s].pc = "done"
    /\ Replied(s)
    /\ run[s].delivery.channel = "none" \/ run[s].delivery.to = ""
    /\ run[s].event \notin {"ok-empty", "ok-token", "duplicate"}

\* C23 as stated: the result returned by a run whose delivery resolves to no
\* usable channel or recipient has status "skipped" with reason "no-target"
\* or the reason of the resolver.
C23_NoTargetReturnsSkipped ==
    \A s \in Slots :
        EndedWithoutTarget(s)
        => /\ run[s].result.status = "skipped"
           /\ run[s].result.reason \in {"no-target", run[s].delivery.reason}

\* C23, amended: such a run is reported as a non-error: the heartbeat event
\* it emits has status "skipped" with the reason of the resolver, "no-target"
\* when the resolver gave none, and the result it returns has status "ran",
\* not "skipped" and not "failed".
C23_NoTargetEmitsSkippedReturnsRan ==
    \A s \in Slots :
        EndedWithoutTarget(s)
        => /\ run[s].emitted.status = "skipped"
           /\ run[s].emitted.reason =
                 IF run[s].delivery.reason # "" THEN run[s].delivery.reason
                 ELSE "no-target"
           /\ run[s].result.status = "ran"

\* With target "last" and no session entry a run has ended with the event
\* skipped/no-target and the result "ran".
C23_Witness ==
    \E s \in Slots :
        /\ EndedWithoutTarget(s)
        /\ run[s].heartbeat.target = "last"
        /\ run[s].emitted = Result("skipped", "no-target")
        /\ run[s].result.status = "ran"

\* The per-agent heartbeat block of the agent of the run of slot s, and the
\* defaults block
OverridesOf(s) == AgentHeartbeat(cfg, run[s].agentId)

\* The heartbeat config hb takes its fields from block ov where ov sets them
\* and from block df otherwise
FieldByField(hb, ov, df) ==
    /\ hb.every = IF ov.every.set THEN ov.every ELSE df.every
    /\ hb.ackMaxChars = IF ov.ackMaxChars # Unset THEN ov.ackMaxChars
                        ELSE df.ackMaxChars
    /\ hb.target = IF ov.target # "" THEN ov.target ELSE df.target
    /\ hb.to = IF ov.to # "" THEN ov.to ELSE df.to
    /\ hb.includeReasoning = IF ov.includeReasoning # "unset"
                             THEN ov.includeReasoning ELSE df.includeReasoning
    /\ hb.prompt = IF ov.prompt # NoText THEN ov.prompt ELSE df.prompt

\* The run of slot s delivers to the channel and recipient that the per-agent
\* block names
DeliversToOverride(s) ==
    ( OverridesOf(s).target \in {"whatsapp", "telegram"}
      /\ OverridesOf(s).to # "" )
    => /\ run[s].delivery.channel = OverridesOf(s).target
       /\ run[s].delivery.to = OverridesOf(s).to

----------------------------------------------------------------------------
\* Properties of the heartbeat interval (specification StopSpec).

\* Values of `every`: unset, "5m", "5", "2h", "0m", unparsable, blank
Everys ==
    {EveryUnset, Every(5, "m"), Every(5, ""), Every(2, "h"), Every(0, "m"),
     EveryInvalid, EveryBlank}

\* The interval that the value e of `every` stands for: 30 minutes when it is
\* unset, null when it is blank, unparsable or not positive, else the
\* duration with minutes as the default unit
IntervalOf(e) ==
    IF ~e.set THEN 30 * MINUTE
    ELSE IF e = EveryBlank \/ e = EveryInvalid \/ e.n <= 0 THEN Undef
    ELSE IF e.unit = "h" THEN e.n * HOUR ELSE e.n * MINUTE

\* The first of the values o, h and d that is set, d when none is
FirstSet(o, h, d) == IF o.set THEN o ELSE IF h.set THEN h ELSE d

\* C26: resolveHeartbeatIntervalMs gives the interval of the explicit
\* override, else of the heartbeat block, else of the config defaults: 30
\* minutes when none is set, the parsed duration when positive, null when
\* "0m", blank or unparsable; a sweep, by tick or by wake, only ever runs
\* agents whose interval is not null.
C26_IntervalResolution ==
    /\ \A o \in Everys, h \in Everys, d \in Everys :
          resolveHeartbeatIntervalMs([cfg EXCEPT !.defaults.every = d], o,
                                     [NoHeartbeat EXCEPT !.every = h])
             = IntervalOf(FirstSet(o, h, d))
    /\ \A s \in Slots :
          /\ sweep[s].pc = "await"
             => IntervalOf(FirstSet(EveryUnset,
                                    heartbeatAgents[sweep[s].idx].heartbeat.every,
                                    cfg.defaults.every)) # Undef
          /\ \A i \in 1..Len(sweepLog[s]) :
                \A j \in 1..Len(heartbeatAgents) :
                   heartbeatAgents[j].agentId = sweepLog[s][i].agentId
                   => IntervalOf(FirstSet(EveryUnset,
                                          heartbeatAgents[j].heartbeat.every,
                                          cfg.defaults.every)) # Undef

\* A wake sweep has run "ops" and "main" and has passed over "off", whose
\* interval is "0m".
C26_Witness ==
    \E s \in Slots :
        /\ sweep[s].pc = "done"
        /\ sweep[s].reason = "wake"
        /\ \E j \in 1..Len(heartbeatAgents) :
              /\ heartbeatAgents[j].agentId = "off"
              /\ heartbeatAgents[j].heartbeat.every = Every(0, "m")
        /\ Len(sweepLog[s]) = 2
        /\ sweepLog[s][1].agentId = "ops"
        /\ sweepLog[s][2].agentId = "main"

----------------------------------------------------------------------------
\* Properties of the targets "none" and "last" (specification Spec).

\* Session entries with every last channel and last recipient
LastRoutes ==
    { Entry(0, lc, lt, NoText, Undef) :
        lc \in {"", "whatsapp", "telegram", "webchat"},
        lt \in {"", "+1555", "120363@g.us", "ui"} }

\* The run in slot s has resolved its delivery target
TargetResolved(s) == run[s].pc # "idle" /\ run[s].startedAt # Undef

\* The effective target of the run in slot s
EffectiveTarget(s) ==
    IF run[s].heartbeat.target = "" THEN "last" ELSE run[s].heartbeat.target

\* C29: with target "none" the delivery target is channel "none" with reason
\* "target-none" and no recipient, for every session entry, absent ones
\* included, and for every configured recipient; a run with that target
\* has made no send.
C29_TargetNoneNeverSends ==
    /\ \A e \in LastRoutes \cup {NoEntry}, to \in {"", "+1555"} :
          LET d == resolveHeartbeatDeliveryTarget(
                       cfg, e,
                       Heartbeat(Every(5, "m"), "none", to, Unset, "unset"))
          IN  d.channel = "none" /\ d.reason = "target-none" /\ d.to = ""
    /\ \A s \in Slots :
          run[s].pc # "idle" /\ run[s].heartbeat.target = "none"
          => /\ sends[s] = <<>>
             /\ run[s].event \notin {"sent", "send-failed", "not-ready"}
             /\ TargetResolved(s)
                => /\ run[s].delivery.channel = "none"
                   /\ run[s].delivery.reason = "target-none"

\* With target "none" and a session whose last route is WhatsApp, a run
\* whose agent replied with a plain text has ended with the event
\* skipped/target-none and no send.
C29_Witness ==
    \E s \in Slots :
        /\ run[s].pc = "done"
        /\ run[s].heartbeat.target = "none"
        /\ run[s].entry.lastChannel = "whatsapp"
        /\ run[s].entry.lastTo = "+1555"
        /\ run[s].text = <<"a">>
        /\ run[s].emitted = Result("skipped", "target-none")
        /\ sends[s] = <<>>

\* C30: with target "last", set or by default, and a session entry whose
\* last channel is webchat, the delivery target is channel "none" with
\* reason "no-target" and reports no last channel, whatever the last
\* recipient; a run in that case has made no send, and no send of any run
\* goes to webchat.
C30_InternalChannelNeverDelivered ==
    /\ \A e \in LastRoutes, target \in {"", "last"} :
          e.lastChannel = "webchat"
          => LET d == resolveHeartbeatDeliveryTarget(
                          cfg, e,
                          Heartbeat(Every(5, "m"), target, "", Unset, "unset"))
             IN  /\ d.channel = "none"
                 /\ d.reason = "no-target"
                 /\ d.to = ""
                 /\ d.lastChannel = ""
    /\ \A s \in Slots :
          /\ \A i \in 1..Len(sends[s]) : sends[s][i].channel # "webchat"
          /\ ( /\ TargetResolved(s)
               /\ EffectiveTarget(s) = "last"
               /\ run[s].entry.lastChannel = "webchat" )
             => /\ run[s].delivery.channel = "none"
                /\ run[s].delivery.reason = "no-target"
                /\ run[s].delivery.lastChannel = ""
                /\ sends[s] = <<>>
                /\ run[s].event \notin {"sent", "send-failed", "not-ready"}

\* With target "last" and a session last used from webchat, a run whose
\* agent replied with a plain text has ended with the event
\* skipped/no-target and no send.
C30_Witness ==
    \E s \in Slots :
        /\ run[s].pc = "done"
        /\ EffectiveTarget(s) = "last"
        /\ run[s].entry.lastChannel = "webchat"
        /\ run[s].entry.lastTo = "ui"
        /\ run[s].text = <<"a">>
        /\ run[s].emitted = Result("skipped", "no-target")
        /\ sends[s] = <<>>

----------------------------------------------------------------------------
\* Properties of the session store (specification SessionSpec).

\* Stored entries with updatedAt undefined, at the start and at the first tick
StoredEntries ==
    { Entry(u, "whatsapp", "+1555", NoText, Undef) : u \in {Undef, 0, HALF_DAY} }

\* C31: restoreHeartbeatUpdatedAt leaves the store as it is when the pre-run
\* value is no number or the entry is missing; otherwise the entry's
\* updatedAt after the call is at least the one before and at least the
\* pre-run value, and no other field and no other entry changes.  A run that
\* ended with the restore has not left updatedAt below its pre-run value.
C31_RestoreNeverMovesBackward ==
    /\ \A k \in {MainKey("main"), GlobalKey} :
       \A e \in StoredEntries \cup {NoEntry, store[k]},
          pre \in {Undef, 0, HALF_DAY} :
          LET st == [store EXCEPT ![k] = e]
              after == restoreHeartbeatUpdatedAt(st, k, pre)
          IN  /\ after[k].updatedAt >= e.updatedAt
              /\ after = [st EXCEPT ![k].updatedAt = after[k].updatedAt]
              /\ pre = Undef \/ ~e.present => after = st
              /\ pre # Undef /\ e.present => after[k].updatedAt >= pre
    /\ \A s \in Slots :
          ( /\ run[s].pc = "done"
            /\ run[s].event \in {"ok-empty", "ok-token", "duplicate"}
            /\ store[run[s].sessionKey].present )
          => store[run[s].sessionKey].updatedAt >= run[s].previousUpdatedAt

\* A run during which updatedAt was advanced has ended with an ack and the
\* restore has left the later value in place.
C31_Witness ==
    \E s \in Slots :
        /\ run[s].pc = "done"
        /\ run[s].event = "ok-token"
        /\ run[s].previousUpdatedAt = 0
        /\ store[run[s].sessionKey].updatedAt = HALF_DAY

----------------------------------------------------------------------------
\* Properties of the WhatsApp recipient (specification TargetSpec).

\* The normal form of the recipient or allow-list entry x, "" when none
NormalForm(x) == normalizeWhatsAppTarget(TrimTarget(x))

\* The allow-list names the wildcard
HasWildcard(al) == \E i \in 1..Len(al) : TrimTarget(al[i]) = "*"

\* The positions of the allow-list that name a recipient
ListedAt(al) ==
    {i \in 1..Len(al) : TrimTarget(al[i]) # "*" /\ NormalForm(al[i]) # ""}

Listed(al) == {NormalForm(al[i]) : i \in ListedAt(al)}

\* The first entry of the allow-list that names a recipient
FirstListed(al) ==
    NormalForm(al[CHOOSE i \in ListedAt(al) : \A j \in ListedAt(al) : i <= j])

\* The allow-list is explicit: it names a recipient and no wildcard
ExplicitAllowList(al) == ~HasWildcard(al) /\ ListedAt(al) # {}

\* The recipient is an individual one: it has a normal form that is no group
Individual(to) == NormalForm(to) # "" /\ NormalForm(to) \notin GroupJids

\* The run in slot s is under way and its selected route is WhatsApp
WhatsAppRoute(s) ==
    /\ run[s].pc # "idle"
    /\ SelectedRoute(run[s].entry, run[s].heartbeat).channel = "whatsapp"

RouteTo(s) == SelectedRoute(run[s].entry, run[s].heartbeat).to

\* Every send of the run in slot s went to its delivery target
SendsGoToTarget(s) ==
    \A i \in 1..Len(sends[s]) :
        /\ sends[s][i].channel = run[s].delivery.channel
        /\ sends[s][i].to = run[s].delivery.to

\* C27: under an explicit allow-list, in heartbeat or implicit mode, an
\* individual recipient outside the normalized allow-list is replaced by
\* its first entry and one inside is kept; the delivery target of a run
\* carries the substitute with reason "allowFrom-fallback", the kept
\* recipient with no reason, and the run sends to that recipient.
C27_AllowListFallback ==
    /\ \A to \in TargetTos, al \in AllowLists, mode \in {"heartbeat", "implicit"} :
          Individual(to) /\ ExplicitAllowList(al)
          => whatsappResolveTarget(to, al, mode)
                = TargetOk(IF NormalForm(to) \in Listed(al)
                           THEN NormalForm(to) ELSE FirstListed(al))
    /\ \A s \in Slots :
          WhatsAppRoute(s) /\ Individual(RouteTo(s))
             /\ ExplicitAllowList(cfg.allowFrom)
          => /\ run[s].delivery.channel = "whatsapp"
             /\ IF NormalForm(RouteTo(s)) \in Listed(cfg.allowFrom)
                THEN /\ run[s].delivery.to = NormalForm(RouteTo(s))
                     /\ run[s].delivery.reason = ""
                ELSE /\ run[s].delivery.to = FirstListed(cfg.allowFrom)
                     /\ run[s].delivery.reason = "allowFrom-fallback"
             /\ SendsGoToTarget(s)

\* A run configured for "+1999" under the allow-list "+1555", "+1666" has
\* sent its reply to "+1555".
C27_Witness ==
    \E s \in Slots :
        /\ run[s].pc = "done"
        /\ run[s].event = "sent"
        /\ run[s].heartbeat.to = "+1999"
        /\ cfg.allowFrom = <<"+1555", "+1666">>
        /\ run[s].delivery.reason = "allowFrom-fallback"
        /\ Len(sends[s]) = 1
        /\ sends[s][1].to = "+1555"

\* The recipient is a group JID, in normal form or not
IsGroup(to) == NormalForm(to) \in GroupJids

\* C28: a group JID is resolved to its normal form under every allow-list
\* and in every mode; the delivery target of a run whose route is a group
\* is that JID with no fallback reason, and the run sends to it.
C28_GroupExemptFromFallback ==
    /\ \A to \in TargetTos, al \in AllowLists,
          mode \in {"heartbeat", "implicit", "explicit"} :
          IsGroup(to) => whatsappResolveTarget(to, al, mode)
                            = TargetOk(NormalForm(to))
    /\ \A s \in Slots :
          WhatsAppRoute(s) /\ IsGroup(RouteTo(s))
          => /\ run[s].delivery.channel = "whatsapp"
             /\ run[s].delivery.to = NormalForm(RouteTo(s))
             /\ run[s].delivery.reason = ""
             /\ SendsGoToTarget(s)

\* A run whose last recipient is the prefixed group JID has sent its reply
\* to the group under the allow-list "+1555".
C28_Witness ==
    \E s \in Slots :
        /\ run[s].pc = "done"
        /\ run[s].event = "sent"
        /\ run[s].heartbeat.target = "last"
        /\ run[s].entry.lastTo = "whatsapp:120363@G.US"
        /\ cfg.allowFrom = <<"+1555">>
        /\ Len(sends[s]) = 1
        /\ sends[s][1].to = "120363@g.us"

\* session.dmScope
DmScopes == {"main", "per-peer", "per-channel-peer"}

\* Discord channel targets with the channel id each names
DiscordChannelCases ==
    { [to |-> <<"channel", "123">>, id |-> <<"123">>],
      [to |-> <<"discord", "channel", "123">>, id |-> <<"123">>],
      [to |-> <<"123">>, id |-> <<"123">>],
      [to |-> <<"channel", "a", "b">>, id |-> <<"a", "b">>] }

\* Telegram group targets with the peer id each names
TelegramGroupCases ==
    { [to |-> <<"-100", "topic", "456">>, id |-> <<"-100", "topic", "456">>],
      [to |-> <<"telegram", "-100", "topic", "456">>,
       id |-> <<"-100", "topic", "456">>],
      [to |-> <<"555", "topic", "7">>, id |-> <<"555", "topic", "7">>],
      [to |-> <<"-100">>, id |-> <<"-100">>],
      [to |-> <<"@news">>, id |-> <<"@news">>],
      [to |-> <<"group", "555">>, id |-> <<"555">>] }

\* The agent a main session key belongs to
AgentOfKey(k) == IF k = GlobalKey THEN DEFAULT_AGENT_ID ELSE k[2]

\* C35: for a group or channel target the plugin's resolveTargetSessionKey
\* returns agent:<agentId>:<channel>:<peerKind>:<peerId> under the agent of
\* the main session key, whatever session.dmScope is: a Discord target
\* "channel:<id>" gives the kind "channel" with that id, a Telegram target
\* "<chatId>:topic:<threadId>" the kind "group" with the peer id
\* "<chatId>:topic:<threadId>"; the key is never the main session key.
C35_PeerSessionKey ==
    \A k \in DOMAIN store, d \in DmScopes :
        /\ \A c \in DiscordChannelCases :
              /\ discordResolveTargetSessionKey(d, k, c.to)
                 = <<"agent", AgentOfKey(k), "discord", "channel">> \o c.id
              /\ discordResolveTargetSessionKey(d, k, c.to)
                 \notin {k, MainKey(AgentOfKey(k))}
        /\ \A c \in TelegramGroupCases :
              /\ telegramResolveTargetSessionKey(d, k, c.to)
                 = <<"agent", AgentOfKey(k), "telegram", "group">> \o c.id
              /\ telegramResolveTargetSessionKey(d, k, c.to)
                 \notin {k, MainKey(AgentOfKey(k))}

C35_Witness ==
    \E s \in Slots :
        /\ run[s].pc = "done"
        /\ run[s].sessionKey = MainKey("main")
        /\ run[s].deliverySessionKey # NoKey
        /\ discordResolveTargetSessionKey("main", run[s].sessionKey,
                                          <<"channel", "123">>)
           = <<"agent", "main", "discord", "channel", "123">>
        /\ telegramResolveTargetSessionKey("main", run[s].sessionKey,
                                           <<"-100", "topic", "456">>)
           = <<"agent", "main", "telegram", "group", "-100", "topic", "456">>
        /\ discordResolveTargetSessionKey("main", run[s].sessionKey,
                                          <<"user", "42">>)
           = run[s].sessionKey

\* Recipients handed to the resolver: those configured, none, and blanks
ResolverTos == TargetTos \cup {"", " "}

\* In heartbeat or implicit mode a successful result is a group JID, or a
\* member of the normalized allow-list, or the normal form of the recipient
\* under an allow-list that is empty or has the wildcard; under such an
\* allow-list an individual recipient is returned in normal form; in explicit
\* mode an individual recipient is returned in normal form
ResultWithinAllowList(to, al, mode) ==
    LET res == whatsappResolveTarget(to, al, mode)
    IN  /\ (res.ok /\ mode \in {"heartbeat", "implicit"})
           => \/ res.to \in GroupJids
              \/ res.to \in Listed(al)
              \/ /\ HasWildcard(al) \/ Listed(al) = {}
                 /\ res.to = NormalForm(to)
        /\ ( /\ mode \in {"heartbeat", "implicit"}
             /\ HasWildcard(al) \/ Listed(al) = {}
             /\ Individual(to) )
           => res = TargetOk(NormalForm(to))
        /\ (mode = "explicit" /\ Individual(to))
           => res = TargetOk(NormalForm(to))

\* C39 as stated: the successful results stay within the allow-list, and
\* the resolution fails only when the recipient has no normal form and the
\* allow-list names no recipient.
C39_FailsOnlyWithoutAnyEntry ==
    \A to \in ResolverTos, al \in AllowLists \cup {cfg.allowFrom},
       mode \in {"heartbeat", "implicit", "explicit"} :
        /\ ResultWithinAllowList(to, al, mode)
        /\ ~whatsappResolveTarget(to, al, mode).ok
           => NormalForm(to) = "" /\ Listed(al) = {}

\* C39 as amended: the successful results stay within the allow-list; in
\* heartbeat or implicit mode the resolution fails only when the recipient
\* has no normal form and the allow-list names no recipient, and in
\* explicit mode it fails also for a non-blank recipient without a normal
\* form, whatever the allow-list names.  The recipient of a run's delivery
\* target under the allow-list of the config is such a result.
C39_ResultWithinAllowList ==
    /\ \A to \in ResolverTos, al \in AllowLists,
          mode \in {"heartbeat", "implicit", "explicit"} :
          /\ ResultWithinAllowList(to, al, mode)
          /\ ~whatsappResolveTarget(to, al, mode).ok
             => /\ NormalForm(to) = ""
                /\ \/ Listed(al) = {}
                   \/ mode = "explicit" /\ TrimTarget(to) # ""
    /\ \A s \in Slots :
          (run[s].pc # "idle" /\ run[s].delivery.channel = "whatsapp")
          => \/ run[s].delivery.to \in GroupJids
             \/ run[s].delivery.to \in Listed(cfg.allowFrom)
             \/ /\ HasWildcard(cfg.allowFrom) \/ Listed(cfg.allowFrom) = {}
                /\ run[s].delivery.to = NormalForm(RouteTo(s))

\* Under the allow-list "*", "+1555" a run configured for "+1999" has sent
\* its reply to "+1999", and the resolver in explicit mode rejects "junk"
\* under the allow-list "+1555".
C39_Witness ==
    /\ ~whatsappResolveTarget("junk", <<"+1555">>, "explicit").ok
    /\ \E s \in Slots :
          /\ run[s].pc = "done"
          /\ run[s].event = "sent"
          /\ cfg.allowFrom = <<"*", "+1555">>
          /\ run[s].heartbeat.to = "+1999"
          /\ Len(sends[s]) = 1
          /\ sends[s][1].to = "+1999"

----------------------------------------------------------------------------
\* Properties of the delivery session (specification SessionSpec).

\* The run of slot s is inside appendHeartbeatToDeliverySession
InAppend(s) ==
    run[s].pc \in {"append-stat", "append-lock", "append-release",
                   "append-save"}

\* C32: the write lock appendHeartbeatToDeliverySession takes is released on
\* every path after it is acquired: after an append, at the return made
\* when the transcript has no assistant message, and when opening or
\* appending throws.  The lock is held only while the function awaits the
\* release; it is never held once the function has returned or thrown.
C32_LockReleasedOnEveryPath ==
    /\ \A k \in DOMAIN sessionLock :
          sessionLock[k].held =>
             \E s \in Slots :
                 /\ sessionLock[k].by = s
                 /\ run[s].pc = "append-release"
                 /\ run[s].deliverySessionKey = k
    /\ \A s \in Slots :
          run[s].pc = "append-release" =>
             /\ run[s].appended \in {"appended", "no-assistant", "threw"}
             /\ sessionLock[run[s].deliverySessionKey] = HeldBy(s)

C32_Witness ==
    \E s \in Slots :
        /\ run[s].pc = "done"
        /\ run[s].event = "append-failed"
        /\ run[s].appended = "threw"
        /\ transcripts[run[s].deliverySessionKey].readable
        /\ sessionLock[run[s].deliverySessionKey] = FreeLock

\* The payloads of slot s that went out hold the main text of its run
MainTextSent(s) ==
    \E i \in 1..Len(sends[s]) : sends[s][i].payload.text = run[s].text

\* The events of a run that ends without having delivered its main text
UndeliveredEvents ==
    {"ok-empty", "ok-token", "duplicate", "no-target", "not-ready",
     "agent-failed", "send-failed"}

NothingToShow(entry, file) ==
    \/ ~entry.present
    \/ file.sessionId = ""
    \/ ~file.exists
    \/ file.messages = <<>>
    \/ \A i \in 1..Len(file.messages) :
          (i > Len(file.messages) - HEARTBEAT_CONTEXT_LIMIT) =>
             \/ file.messages[i].role \notin {"user", "assistant"}
             \/ \A n \in 1..Len(file.messages[i].text) :
                   file.messages[i].text[n] = "sp"

\* C34: when the delivery session has no store entry, no session id, no
\* transcript file, no messages, or no user or assistant text that is not
\* blank among its most recent messages, building the channel context
\* yields nothing and the run goes on to the agent with the unmodified
\* heartbeat prompt; it does not end there with a failed or skipped result.
C34_MissingTranscriptSkipped ==
    [][\A s \in Slots :
          (/\ run[s].pc = "context"
           /\ run'[s].pc # "context"
           /\ NothingToShow(store[run[s].deliverySessionKey],
                            transcripts[run[s].deliverySessionKey]))
          => /\ run'[s].pc = "agent"
             /\ ~run'[s].hasContext
             /\ run'[s].body = resolveHeartbeatPrompt(cfg, run[s].heartbeat)
             /\ agentCalls'[s] = 1]_vars

C34_Witness ==
    \E s \in Slots :
        /\ run[s].pc = "agent"
        /\ agentCalls[s] = 1
        /\ ~run[s].hasContext
        /\ run[s].deliverySessionKey = MainDeliveryKey
        /\ store[MainDeliveryKey].present
        /\ transcripts[MainDeliveryKey].exists
        /\ Len(transcripts[MainDeliveryKey].messages)
           = HEARTBEAT_CONTEXT_LIMIT + 1
        /\ run[s].body = resolveHeartbeatPrompt(cfg, run[s].heartbeat)

\* C38: the writes a run makes to the session store after a delivery (the
\* record of lastHeartbeatText and lastHeartbeatSentAt, and the updatedAt of
\* the delivery session) lose no update of another writer: nothing but the
\* fields the run sets differs in the store after the write from the store
\* before it.
C38_NoLostUpdate ==
    [][\A s \in Slots :
          /\ (run[s].pc = "save" /\ run'[s].pc # "save") =>
                \A k \in DOMAIN store :
                    /\ store'[k].present = store[k].present
                    /\ store'[k].lastChannel = store[k].lastChannel
                    /\ store'[k].lastTo = store[k].lastTo
                    /\ store'[k].updatedAt = store[k].updatedAt
                    /\ k # run[s].sessionKey => store'[k] = store[k]
          /\ (run[s].pc = "append-save" /\ run'[s].pc # "append-save") =>
                \A k \in DOMAIN store :
                    /\ store'[k].present = store[k].present
                    /\ store'[k].lastChannel = store[k].lastChannel
                    /\ store'[k].lastTo = store[k].lastTo
                    /\ k # run[s].deliverySessionKey =>
                          store'[k] = store[k]]_vars

----------------------------------------------------------------------------
\* Properties of the system events (specification EventsSpec).

\* The events a prompt drained, and the lines it got from events
DrainedBy(i) == {prompts[i].drained[n] : n \in 1..Len(prompts[i].drained)}

EventLinesOf(i) ==
    {l \in {prompts[i].lines[n] : n \in 1..Len(prompts[i].lines)} : l.id # 0}

\* A queued text the prompt build passes over: one that begins with
\* "heartbeat" or holds "reason periodic"
PassedOver(text) ==
    \/ Head(text) \in {"heartbeat", "Heartbeat:"}
    \/ \E n \in 1..Len(text) : text[n] = "reason periodic"

\* The last prompt built, when a step builds one
BuiltPrompt == prompts'[Len(prompts')]

----------------------------------------------------------------------------
\* Properties of the runner's cleanup (specification StopSpec).

\* C24: once the cleanup has run (stop() or the abort signal) the interval
\* timer is cleared and the wake handler unregistered, and they stay so; no
\* later step invokes the handler, for a tick or for a wake request, and
\* another cleanup changes nothing; the cleanup itself touches no run and no
\* sweep, and a run in flight is never cancelled: it leaves its await only by
\* its own steps.
C24_StopEndsSweepsNotRuns ==
    /\ [](timer = handler)
    /\ [][/\ (timer /\ ~timer')
             => /\ ~handler'
                /\ run' = run /\ sweep' = sweep /\ sends' = sends
                /\ store' = store /\ pendingWake' = pendingWake
          /\ ~timer
             => /\ ~timer' /\ ~handler'
                /\ pendingWake' # "interval" \/ pendingWake = "interval"
                /\ \A s \in Slots :
                      /\ ~SweepBegins(s)
                      /\ Suspended(s) => run'[s].pc # "idle"]_vars

\* After the cleanup, and after a sweep that ran an agent, a wake request
\* waits unserved although no sweep is under way and every slot is free.
C24_Witness ==
    /\ ~timer /\ ~handler
    /\ pendingWake = "wake"
    /\ \A t \in Slots : SlotFree(t)
    /\ \E a \in AgentIds : lastRunByAgent[a] # Undef

============================================================================
